---- MODULE Spec2Model ----
(***************************************************************************)
(* State-machine model of the deployment portal's client-side state        *)
(* management: the React deployment details view with its log viewer, the  *)
(* legacy deployment monitor and history polling, and the cascading        *)
(* dropdowns of the legacy parameters form.                                *)
(***************************************************************************)
EXTENDS Integers, Sequences, FiniteSets, Bags, TLC

VARIABLES
    \* DeploymentDetails.jsx
    ddMounted,      \* the DeploymentDetails component is mounted
    id,             \* route parameter from useParams()
    deployment,     \* useState(null)
    loading,        \* useState(true)
    error,          \* useState(null)
    taskInfo,       \* useState(null)
    interval,       \* id captured by the fetchDeployment closure of setInterval, or "none"
    requests,       \* bag of the fetchDeployment calls that are awaiting a response
    srv,            \* status of each deployment on the server
    \* DeploymentLogViewer.jsx
    viewerMounted,  \* a DeploymentLogViewer instance is mounted
    deploymentId,   \* its deploymentId prop
    logs,           \* useState([])
    filteredLogs,   \* useState([])
    levelFilter,    \* useState('ALL')
    phaseFilter,    \* useState('ALL')
    searchQuery,    \* useState('')
    esState,        \* readyState of the EventSource held by the SSE effect
    received,       \* 'log' events delivered to onmessage since the viewer mounted
    streamEnded,    \* the current stream delivered 'complete'/'done' or raised an error
    endedStreams,   \* deployment ids whose stream delivered 'complete'/'done' or raised an error
    \* legacy frontend: deployTemplate, monitorDeployment, deployment polling
    selectedTemplate,           \* let selectedTemplate = null
    deployRequest,              \* body of the POST /deploy that is awaiting its response
    validationErrors,           \* errors listed by deployTemplate's last showError
    monitors,                   \* per deployment id, the state of its monitorDeployment call
    provisioning,               \* per deployment id, provisioningState on the server
    deploymentPollingInterval,  \* let deploymentPollingInterval = null
    historyRequests,            \* loadDeployments calls made by the polling interval
    \* legacy frontend: parameters form
    form,           \* the select elements of the parameters form: options and value
    handled,        \* cascades whose fields are as their change handler left them
    \* legacy frontend: autosave of the parameters form
    timers,         \* milliseconds left of each pending setTimeout of triggerAutoSave
    autoSaveTimer,  \* let autoSaveTimer: milliseconds left of the timeout whose handle it holds
    sinceEdit,      \* milliseconds since the most recent input event of the form
    localStorage,   \* per autosave key, the stored item: <<>> or <<item>>
    \* Deploy page (React)
    pageTemplate,       \* Deploy's selectedTemplate state
    deploying,          \* useState(false)
    pageDeploymentId,   \* Deploy's deploymentId state, "null" for null or undefined
    pageError,          \* Deploy's error state, "" for null
    toasts,             \* the addToast calls made, in order
    deployCalls,        \* handleDeploy calls awaiting axios.post, in order, with their locals
    cloudCredentials,   \* the 'cloudCredentials' item of sessionStorage and of localStorage
    navTimers,          \* pending navigate timeouts: [to, remaining ms]
    route,              \* "deploy", or the deployment id of the details route navigated to
    \* User management page (React)
    users,              \* the role of each user of the fetched list
    usersLoading,       \* UserManagement's loading state
    usersRequests,      \* fetchUsers calls awaiting axios.get
    \* AuthProvider (React)
    authUser,           \* AuthProvider's user state
    authToken,          \* AuthProvider's token state, "null" for null
    authLoading,        \* AuthProvider's loading state
    isAuthenticated,    \* useState(false)
    authStorage,        \* localStorage's auth_token and auth_user items
    authCalls,          \* login, updateUser and getCurrentUser calls awaiting their answer
    authSettled,        \* the call that resumed last, with the status of its answer
    \* legacy parameters form (showTemplateParameters, collectParameters)
    paramSchema,        \* the parameter schema the form was built from
    paramInputs,        \* the value of each named control of #parametersForm
    collected,          \* what collectParameters returned last
    \* ServiceCatalog.jsx
    catalogMounted,     \* the ServiceCatalog component is mounted
    catalogProvider,    \* useState('azure')
    catalogTemplates,   \* useState([])
    templateCounts,     \* useState({ azure: 0, gcp: 0 })
    catalogLoading,     \* useState(false)
    catalogCalls,       \* fetchTemplates calls awaiting templateAPI.getTemplates
    countsCall,         \* fetchTemplateCounts: "none", "pending" or "done"
    catalogFailed,      \* a template request failed since the provider was selected
    \* legacy resource group list (resourceGroups.js, showConfirmDialog)
    confirmModal,       \* the #confirmModal element of the document
    deleteHandlers,     \* click handlers of Delete buttons awaiting showConfirmDialog
    deleteRequests,     \* the DELETE requests sent
    rgSubscription,     \* value of the #subscription select
    rgError             \* the message shown last by showError

detailsVars == <<ddMounted, id, deployment, loading, error, taskInfo, interval, requests, srv>>
viewerVars == <<viewerMounted, deploymentId, logs, filteredLogs, levelFilter, phaseFilter,
                searchQuery, esState, received, streamEnded, endedStreams>>
legacyVars == <<selectedTemplate, deployRequest, validationErrors, monitors, provisioning,
                deploymentPollingInterval, historyRequests>>
cascadeVars == <<form, handled>>
autosaveVars == <<timers, autoSaveTimer, sinceEdit, localStorage>>
deployVars == <<pageTemplate, deploying, pageDeploymentId, pageError, toasts, deployCalls,
                cloudCredentials, navTimers, route>>
usersVars == <<users, usersLoading, usersRequests>>
authVars == <<authUser, authToken, authLoading, isAuthenticated, authStorage, authCalls,
              authSettled>>
paramVars == <<paramSchema, paramInputs, collected>>
catalogVars == <<catalogMounted, catalogProvider, catalogTemplates, templateCounts,
                 catalogLoading, catalogCalls, countsCall, catalogFailed>>
dialogVars == <<confirmModal, deleteHandlers, deleteRequests, rgSubscription, rgError>>
laterVars == <<authVars, paramVars, catalogVars, dialogVars>>
vars == <<detailsVars, viewerVars, legacyVars, cascadeVars, autosaveVars, deployVars, usersVars,
          laterVars>>

\* What the React views, the legacy deployment code and the legacy form leave alone.
nonReactVars == <<legacyVars, cascadeVars, autosaveVars, deployVars, usersVars,
    laterVars>>
nonLegacyVars == <<detailsVars, viewerVars, cascadeVars, autosaveVars, deployVars, usersVars,
    laterVars>>
nonCascadeVars == <<detailsVars, viewerVars, legacyVars, deployVars, usersVars,
    laterVars>>
nonDeployVars == <<detailsVars, viewerVars, legacyVars, cascadeVars, autosaveVars, usersVars,
    laterVars>>
nonUsersVars == <<detailsVars, viewerVars, legacyVars, cascadeVars, autosaveVars, deployVars,
    laterVars>>
legacyPageVars == <<detailsVars, viewerVars, legacyVars, cascadeVars, autosaveVars, deployVars,
                    usersVars>>
nonAuthVars == <<legacyPageVars, paramVars, catalogVars, dialogVars>>
nonParamVars == <<legacyPageVars, authVars, catalogVars, dialogVars>>
nonCatalogVars == <<legacyPageVars, authVars, paramVars, dialogVars>>
nonDialogVars == <<legacyPageVars, authVars, paramVars, catalogVars>>

(***************************************************************************)
(* Bounds                                                                  *)
(***************************************************************************)
MaxInFlight == 2
MaxLogs == 2
MaxPendingChecks == 2
MaxHistoryPolls == 2
MaxToasts == 2
MaxUsers == 2
MaxAuthCalls == 2

(***************************************************************************)
(* Strings are sequences of one-character strings, so that toUpperCase,    *)
(* toLowerCase, includes and trim are computed character by character.     *)
(***************************************************************************)
LowerChars == <<"a","b","c","d","e","f","g","h","i","j","k","l","m",
                "n","o","p","q","r","s","t","u","v","w","x","y","z">>
UpperChars == <<"A","B","C","D","E","F","G","H","I","J","K","L","M",
                "N","O","P","Q","R","S","T","U","V","W","X","Y","Z">>

Range(s) == {s[i] : i \in 1..Len(s)}

UpperChar(c) ==
    IF \E i \in 1..26 : LowerChars[i] = c
    THEN UpperChars[CHOOSE i \in 1..26 : LowerChars[i] = c]
    ELSE c

LowerChar(c) ==
    IF \E i \in 1..26 : UpperChars[i] = c
    THEN LowerChars[CHOOSE i \in 1..26 : UpperChars[i] = c]
    ELSE c

toUpperCase(s) == [i \in 1..Len(s) |-> UpperChar(s[i])]
toLowerCase(s) == [i \in 1..Len(s) |-> LowerChar(s[i])]

includes(s, q) ==
    \E i \in 0..(Len(s) - Len(q)) : SubSeq(s, i + 1, i + Len(q)) = q


(***************************************************************************)
(* DeploymentLogViewer.jsx                                                 *)
(***************************************************************************)
ALL == <<"A","L","L">>
INFO == <<"I","N","F","O">>
WARNING == <<"W","A","R","N","I","N","G">>
ERROR == <<"E","R","R","O","R">>
DEBUG == <<"D","E","B","U","G">>
unknown == <<"u","n","k","n","o","w","n">>

LOG_LEVELS == <<ALL, INFO, WARNING, ERROR, DEBUG>>
LOG_PHASES == <<ALL,
                <<"I","N","I","T","I","A","L","I","Z","A","T","I","O","N">>,
                <<"V","A","L","I","D","A","T","I","N","G">>,
                <<"P","L","A","N","N","I","N","G">>,
                <<"A","P","P","L","Y","I","N","G">>,
                <<"F","I","N","A","L","I","Z","I","N","G">>,
                <<"F","A","I","L","E","D">>>>

\* Payloads of the 'log' events the stream delivers.  An absent level or
\* phase is the empty string (falsy, like undefined).
QuotaEvent ==
    [timestamp |-> 1, level |-> ERROR, phase |-> <<"a","p","p","l","y","i","n","g">>,
     message |-> <<"q","u","o","t","a"," ","e","x","c","e","e","d","e","d">>]
LogEvents ==
    { QuotaEvent,
      [timestamp |-> 2, level |-> WARNING, phase |-> <<"p","l","a","n","n","i","n","g">>,
       message |-> <<"P","l","a","n"," ","d","r","i","f","t">>],
      [timestamp |-> 3, level |-> <<>>, phase |-> <<>>,
       message |-> <<"n","o"," ","e","r","r","o","r","s">>],
      [timestamp |-> 4, level |-> INFO, phase |-> <<"A","p","p","l","y","i","n","g">>,
       message |-> <<"o","k">>] }

\* Texts typed into the search box.
SearchQueries ==
    { <<>>, <<"E","R","R">>, <<"p","l","a","n">>, <<"Q","u","o","t","a">>, <<"z">> }

\* The entry onmessage builds from a 'log' event.
LogEntry(data) ==
    [timestamp |-> data.timestamp,
     level |-> IF data.level = <<>> THEN INFO ELSE data.level,
     phase |-> IF data.phase = <<>> THEN unknown ELSE data.phase,
     message |-> data.message]

prependLog(prevLogs, entry) == <<entry>> \o prevLogs

\* setLogs((prevLogs) => [...prevLogs, entry])
appendLog(prevLogs, entry) == Append(prevLogs, entry)

levelMatches(log, lf) == log.level = lf

phaseMatchesExact(log, pf) == log.phase = pf

phaseMatches(log, pf) == toUpperCase(log.phase) = pf

searchMatches(log, sq) ==
    LET query == toLowerCase(sq)
    IN  \/ includes(toLowerCase(log.message), query)
        \/ includes(toLowerCase(log.level), query)
        \/ includes(toLowerCase(log.phase), query)

\* if (levelFilter !== 'ALL') filtered = filtered.filter(...)
filterLevel(ls, lf) ==
    IF lf # ALL THEN SelectSeq(ls, LAMBDA log : levelMatches(log, lf)) ELSE ls

\* if (phaseFilter !== 'ALL') filtered = filtered.filter(...)
filterPhase(ls, pf) ==
    IF pf # ALL THEN SelectSeq(ls, LAMBDA log : phaseMatches(log, pf)) ELSE ls

\* if (searchQuery) filtered = filtered.filter(...)
filterSearch(ls, sq) ==
    IF sq # <<>> THEN SelectSeq(ls, LAMBDA log : searchMatches(log, sq)) ELSE ls

\* The body of the filter effect: level, then phase, then search.
ApplyFilters(ls, lf, pf, sq) == filterSearch(filterPhase(filterLevel(ls, lf), pf), sq)

\* First render of a viewer instance: initial state, SSE effect opens the stream.
MountViewer(d) ==
    /\ viewerMounted' = TRUE
    /\ deploymentId' = d
    /\ logs' = <<>>
    /\ levelFilter' = ALL
    /\ phaseFilter' = ALL
    /\ searchQuery' = <<>>
    /\ filteredLogs' = ApplyFilters(<<>>, ALL, ALL, <<>>)
    /\ esState' = "open"
    /\ received' = <<>>
    /\ streamEnded' = FALSE
    /\ endedStreams' = endedStreams

\* Unmount: the SSE effect's cleanup closes the stream, the state is dropped.
UnmountViewer ==
    /\ viewerMounted' = FALSE
    /\ deploymentId' = "none"
    /\ logs' = <<>>
    /\ levelFilter' = ALL
    /\ phaseFilter' = ALL
    /\ searchQuery' = <<>>
    /\ filteredLogs' = <<>>
    /\ esState' = "closed"
    /\ received' = <<>>
    /\ streamEnded' = FALSE
    /\ endedStreams' = endedStreams

\* The deploymentId prop changed: cleanup closes the old stream, the effect
\* runs again and opens a stream for the new id; no other state is touched.
ReconnectViewer(d) ==
    /\ deploymentId' = d
    /\ esState' = "open"
    /\ streamEnded' = FALSE
    /\ UNCHANGED <<viewerMounted, logs, filteredLogs, levelFilter, phaseFilter,
                   searchQuery, received, endedStreams>>

\* What a render of the parent does to the viewer: show says whether the
\* parent renders a viewer, d is the deploymentId it passes.
RenderViewer(show, d) ==
    IF show /\ ~viewerMounted THEN MountViewer(d)
    ELSE IF ~show /\ viewerMounted THEN UnmountViewer
    ELSE IF show /\ d # deploymentId THEN ReconnectViewer(d)
    ELSE UNCHANGED viewerVars

\* eventSource.onmessage with data.type === 'log'
OnMessageLog(data) ==
    /\ viewerMounted
    /\ esState = "open"
    /\ Len(logs) < MaxLogs
    /\ logs' = appendLog(logs, LogEntry(data))
    /\ filteredLogs' = ApplyFilters(logs', levelFilter, phaseFilter, searchQuery)
    /\ received' = Append(received, data)
    /\ UNCHANGED <<viewerMounted, deploymentId, levelFilter, phaseFilter, searchQuery, esState,
                   streamEnded, endedStreams>>

\* eventSource.onmessage with data.type === 'complete' or 'done'
OnMessageComplete(type) ==
    /\ viewerMounted
    /\ esState = "open"
    /\ type \in {"complete", "done"}
    /\ esState' = "closed"
    /\ streamEnded' = TRUE
    /\ endedStreams' = endedStreams \cup {deploymentId}
    /\ UNCHANGED <<viewerMounted, deploymentId, logs, filteredLogs, levelFilter,
                   phaseFilter, searchQuery, received>>

OnErrorNoClose ==
    /\ viewerMounted
    /\ esState = "open"
    /\ streamEnded' = TRUE
    /\ endedStreams' = endedStreams \cup {deploymentId}
    /\ UNCHANGED <<viewerMounted, deploymentId, logs, filteredLogs, levelFilter,
                   phaseFilter, searchQuery, received, esState>>

\* eventSource.onerror
OnError ==
    /\ viewerMounted
    /\ esState = "open"
    /\ esState' = "closed"
    /\ streamEnded' = TRUE
    /\ endedStreams' = endedStreams \cup {deploymentId}
    /\ UNCHANGED <<viewerMounted, deploymentId, logs, filteredLogs, levelFilter,
                   phaseFilter, searchQuery, received>>

\* onChange of the level select, followed by the filter effect
SetLevelFilter(lf) ==
    /\ viewerMounted
    /\ lf # levelFilter
    /\ levelFilter' = lf
    /\ filteredLogs' = ApplyFilters(logs, lf, phaseFilter, searchQuery)
    /\ UNCHANGED <<viewerMounted, deploymentId, logs, phaseFilter, searchQuery, esState, received,
                   streamEnded, endedStreams>>

\* onChange of the phase select, followed by the filter effect
SetPhaseFilter(pf) ==
    /\ viewerMounted
    /\ pf # phaseFilter
    /\ phaseFilter' = pf
    /\ filteredLogs' = ApplyFilters(logs, levelFilter, pf, searchQuery)
    /\ UNCHANGED <<viewerMounted, deploymentId, logs, levelFilter, searchQuery, esState, received,
                   streamEnded, endedStreams>>

\* onChange of the search input, followed by the filter effect
SetSearchQuery(sq) ==
    /\ viewerMounted
    /\ sq # searchQuery
    /\ searchQuery' = sq
    /\ filteredLogs' = ApplyFilters(logs, levelFilter, phaseFilter, sq)
    /\ UNCHANGED <<viewerMounted, deploymentId, logs, levelFilter, phaseFilter, esState, received,
                   streamEnded, endedStreams>>

InitViewer ==
    /\ viewerMounted = FALSE
    /\ deploymentId = "none"
    /\ logs = <<>>
    /\ filteredLogs = <<>>
    /\ levelFilter = ALL
    /\ phaseFilter = ALL
    /\ searchQuery = <<>>
    /\ esState = "closed"
    /\ received = <<>>
    /\ streamEnded = FALSE
    /\ endedStreams = {}


(***************************************************************************)
(* DeploymentDetails.jsx                                                   *)
(***************************************************************************)
Ids == {"A", "B"}
NonTerminal == {"pending", "running"}
Terminal == {"completed", "failed"}
Statuses == NonTerminal \cup Terminal
TaskPhases == {"initializing", "validating", "planning", "applying", "finalizing", "completed"}

\* useState(null): deployment?.status of the null record is undefined
NullDeployment == [deployment_id |-> "none", status |-> "undefined", celery_task_id |-> FALSE]

\* The record the server returns for deployment i.  Deployment A runs as a
\* background task (celery_task_id set), deployment B does not.
DeploymentData(i, st) == [deployment_id |-> i, status |-> st, celery_task_id |-> (i = "A")]

\* The view renders a DeploymentLogViewer only past the loading, error and
\* not-found early returns, and only for a pending or running deployment.
ShowsViewer(m, l, e, d) ==
    m /\ ~l /\ e = "null" /\ d # NullDeployment /\ d.status \in NonTerminal

PollingEffectNoCleanup(old, d, dNew, routeId) ==
    IF dNew.status # d.status /\ dNew.status \in NonTerminal THEN routeId ELSE old

\* useEffect(..., [deployment?.status]): when the status changed the cleanup
\* clears the old interval, and a pending or running status starts a new one
\* whose fetchDeployment closes over the route id of that render.
PollingEffect(old, d, dNew, routeId) ==
    IF dNew.status = d.status THEN old
    ELSE IF dNew.status \in NonTerminal THEN routeId
    ELSE "none"

\* s can follow f in a deployment's life on the server
Follows(f, s) ==
    \/ f = s
    \/ f = "pending"
    \/ f = "running" /\ s \in Terminal

\* fetchDeployment up to the await of deploymentAPI.getById(id); sent records
\* the server's status when the request left, the answer is read at or after it.
FetchRequest(i, who) == [rid |-> i, by |-> who, stage |-> "detail", sent |-> srv[i]]

Issue(r) == requests (+) SetToBag({r})
Settle(r) == requests (-) SetToBag({r})

\* The external server: a deployment advances pending -> running -> {completed, failed}.
ServerAdvance(i) ==
    /\ \/ srv[i] = "pending" /\ srv' = [srv EXCEPT ![i] = "running"]
       \/ srv[i] = "running" /\ \E t \in Terminal : srv' = [srv EXCEPT ![i] = t]
    /\ UNCHANGED <<ddMounted, id, deployment, loading, error, taskInfo, interval, requests>>
    /\ UNCHANGED viewerVars
    /\ UNCHANGED nonReactVars

\* fetchDeployment resumes after getById resolved with status st: setDeployment,
\* then either the task-status request is sent or the function runs to its end.
ReceiveDeployment(r, st) ==
    /\ BagIn(r, requests)
    /\ r.stage = "detail"
    /\ Follows(r.sent, st) /\ Follows(st, srv[r.rid])
    /\ LET deploymentData == DeploymentData(r.rid, st)
           fetchTask == deploymentData.celery_task_id /\ deploymentData.status \in NonTerminal
       IN  /\ requests' = IF fetchTask
                          THEN Settle(r) (+) SetToBag({[r EXCEPT !.stage = "task"]})
                          ELSE Settle(r)
           /\ IF ddMounted
              THEN /\ deployment' = deploymentData
                   /\ interval' = PollingEffect(interval, deployment, deploymentData, id)
                   /\ error' = IF fetchTask THEN error ELSE "null"
                   /\ loading' = IF fetchTask THEN loading ELSE FALSE
                   /\ RenderViewer(ShowsViewer(TRUE, loading', error', deployment'),
                                   deploymentData.deployment_id)
              ELSE /\ UNCHANGED <<deployment, interval, error, loading>>
                   /\ UNCHANGED viewerVars
    /\ UNCHANGED <<ddMounted, id, taskInfo, srv>>
    /\ UNCHANGED nonReactVars

\* fetchDeployment resumes after getTaskStatus settled: setTaskInfo on
\* success, nothing on failure, then setError(null) and setLoading(false).
ReceiveTask(r, ok, phase) ==
    /\ BagIn(r, requests)
    /\ r.stage = "task"
    /\ requests' = Settle(r)
    /\ IF ddMounted
       THEN /\ taskInfo' = IF ok THEN phase ELSE taskInfo
            /\ error' = "null"
            /\ loading' = FALSE
            /\ RenderViewer(ShowsViewer(TRUE, FALSE, "null", deployment), deployment.deployment_id)
       ELSE /\ UNCHANGED <<taskInfo, error, loading>>
            /\ UNCHANGED viewerVars
    /\ UNCHANGED <<ddMounted, id, deployment, interval, srv>>
    /\ UNCHANGED nonReactVars

\* getById rejected: catch sets the error, finally clears loading.
ReceiveError(r) ==
    /\ BagIn(r, requests)
    /\ r.stage = "detail"
    /\ requests' = Settle(r)
    /\ IF ddMounted
       THEN /\ error' = "Failed to fetch deployment"
            /\ loading' = FALSE
            /\ RenderViewer(FALSE, deploymentId)
       ELSE /\ UNCHANGED <<error, loading>>
            /\ UNCHANGED viewerVars
    /\ UNCHANGED <<ddMounted, id, deployment, taskInfo, interval, srv>>
    /\ UNCHANGED nonReactVars

\* setInterval(fetchDeployment, 3000) fires
TimerTick ==
    /\ interval # "none"
    /\ BagCardinality(requests) < MaxInFlight
    /\ requests' = Issue(FetchRequest(interval, "timer"))
    /\ UNCHANGED <<ddMounted, id, deployment, loading, error, taskInfo, interval, srv>>
    /\ UNCHANGED viewerVars
    /\ UNCHANGED nonReactVars

\* The route parameter changes while the view stays mounted:
\* useEffect(() => { fetchDeployment(); }, [id]) runs for the new id.
ChangeId(j) ==
    /\ ddMounted
    /\ j # id
    /\ BagCardinality(requests) < MaxInFlight
    /\ id' = j
    /\ requests' = Issue(FetchRequest(j, "effect"))
    /\ UNCHANGED <<ddMounted, deployment, loading, error, taskInfo, interval, srv>>
    /\ UNCHANGED viewerVars
    /\ UNCHANGED nonReactVars

\* The view unmounts: the polling effect's cleanup clears the interval.
UnmountDetails ==
    /\ ddMounted
    /\ ddMounted' = FALSE
    /\ interval' = "none"
    /\ deployment' = NullDeployment
    /\ loading' = TRUE
    /\ error' = "null"
    /\ taskInfo' = "null"
    /\ RenderViewer(FALSE, deploymentId)
    /\ UNCHANGED <<id, requests, srv>>
    /\ UNCHANGED nonReactVars

\* First render: the [id] effect has called fetchDeployment.
InitDetails ==
    /\ ddMounted = TRUE
    /\ id \in Ids
    /\ deployment = NullDeployment
    /\ loading = TRUE
    /\ error = "null"
    /\ taskInfo = "null"
    /\ interval = "none"
    /\ srv \in [Ids -> Statuses]
    /\ requests = SetToBag({FetchRequest(id, "effect")})

(***************************************************************************)
(* Legacy frontend: deployTemplate, validateDeploymentParameters,          *)
(* monitorDeployment, startDeploymentPolling                               *)
(***************************************************************************)
maxAttempts == 20
maxNameLength == 90

Templates == {"webapp", "sqldb"}
DeploymentIds == {"d1"}

IsSpace(c) == c \in {" ", "\t", "\n"}

RECURSIVE trimStart(_)
trimStart(s) == IF s # <<>> /\ IsSpace(s[1]) THEN trimStart(Tail(s)) ELSE s

RECURSIVE trimEnd(_)
trimEnd(s) ==
    IF s # <<>> /\ IsSpace(s[Len(s)]) THEN trimEnd(SubSeq(s, 1, Len(s) - 1)) ELSE s

\* String.prototype.trim
trim(s) == trimEnd(trimStart(s))

NameChars ==
    Range(LowerChars) \cup Range(UpperChars)
        \cup {"0", "1", "2", "3", "4", "5", "6", "7", "8", "9"} \cup {".", "_", "-"}

\* /^[a-zA-Z0-9._-]+$/.test(s)
rgNamePattern(s) == s # <<>> /\ \A i \in 1..Len(s) : s[i] \in NameChars

validateDeploymentParameters(parameters) ==
    LET resourceGroupName == parameters.resourceGroupName
        location == parameters.location
    IN  (IF selectedTemplate = "null" THEN <<"Please select a template first">> ELSE <<>>)
        \o (IF trim(resourceGroupName) = <<>>
            THEN <<"Resource Group Name is required">> ELSE <<>>)
        \o (IF trim(location) = <<>> THEN <<"Location is required">> ELSE <<>>)
        \o (IF trim(resourceGroupName) # <<>> /\ ~rgNamePattern(trim(resourceGroupName))
            THEN <<"Resource Group Name can only contain letters, numbers, periods, underscores, and hyphens">>
            ELSE <<>>)
        \o (IF trim(resourceGroupName) # <<>> /\ Len(trim(resourceGroupName)) > maxNameLength
            THEN <<"Resource Group Name must be 90 characters or less">> ELSE <<>>)

\* Contents of the parameters form when the deploy button is pressed.
LongName == [i \in 1..(maxNameLength + 1) |-> "a"]
FormInputs ==
    [subscription : {<<>>, <<"s","1">>},
     resourceGroupName : {<<>>, <<" ">>, <<"r","g","-","1">>, <<" ","r","g">>, <<"r","g","!">>, LongName},
     location : {<<>>, <<"e","u">>},
     sku : {<<"F","1">>, <<"S","1">>}]

NoRequest == [template_name |-> "null"]

\* The body deployTemplate posts: the three top-level fields are taken out of
\* the parameters.
deploymentData(parameters) ==
    [template_name |-> selectedTemplate,
     subscription_id |-> parameters.subscription,
     resource_group |-> parameters.resourceGroupName,
     location |-> parameters.location,
     parameters |-> [k \in DOMAIN parameters \ {"subscription", "resourceGroupName", "location"}
                        |-> parameters[k]]]

\* monitorDeployment's closure: attempts, the state of its interval ("none"
\* before the call, "initial" during the awaited first check, then "on" or
\* "off"), the checkStatus calls awaiting a response, and what it did so far.
NoMonitor == [timer |-> "none", attempts |-> 0, pending |-> 0, requests |-> 0,
              notifications |-> 0]

\* monitorDeployment up to the await of the initial checkStatus's fetch
StartMonitor == [timer |-> "initial", attempts |-> 0, pending |-> 1, requests |-> 1,
                 notifications |-> 0]

\* A template's select button is clicked.
SelectTemplate(t) ==
    /\ selectedTemplate' = t
    /\ UNCHANGED <<deployRequest, validationErrors, monitors, provisioning,
                   deploymentPollingInterval, historyRequests>>
    /\ UNCHANGED nonLegacyVars

DeployTemplateNoReturn(parameters) ==
    /\ deployRequest = NoRequest
    /\ validationErrors' = validateDeploymentParameters(parameters)
    /\ deployRequest' = deploymentData(parameters)
    /\ UNCHANGED <<selectedTemplate, monitors, provisioning, deploymentPollingInterval,
                   historyRequests>>
    /\ UNCHANGED nonLegacyVars

\* deployTemplate up to the await of fetch('/deploy'), or to its early return.
DeployTemplate(parameters) ==
    /\ deployRequest = NoRequest
    /\ LET errors == validateDeploymentParameters(parameters)
       IN  IF Len(errors) > 0
           THEN /\ validationErrors' = errors
                /\ UNCHANGED deployRequest
           ELSE /\ deployRequest' = deploymentData(parameters)
                /\ UNCHANGED validationErrors
    /\ UNCHANGED <<selectedTemplate, monitors, provisioning, deploymentPollingInterval,
                   historyRequests>>
    /\ UNCHANGED nonLegacyVars

\* deployTemplate resumes with a response that is not ok, or fetch rejected.
DeployFailed ==
    /\ deployRequest # NoRequest
    /\ deployRequest' = NoRequest
    /\ UNCHANGED <<selectedTemplate, validationErrors, monitors, provisioning,
                   deploymentPollingInterval, historyRequests>>
    /\ UNCHANGED nonLegacyVars

\* startDeploymentPolling: a running interval is cleared, a new one is set.
\* Nothing calls stopDeploymentPolling, so nothing resets the variable.
startDeploymentPolling == TRUE

\* deployTemplate resumes with an ok response; d is result.deployment_id
\* ("null" when the result has none).
DeploySucceeded(d) ==
    /\ deployRequest # NoRequest
    /\ d \in {"null"} \cup {e \in DeploymentIds : monitors[e] = NoMonitor}
    /\ deployRequest' = NoRequest
    /\ IF d # "null"
       THEN /\ monitors' = [monitors EXCEPT ![d] = StartMonitor]
            /\ provisioning' = [provisioning EXCEPT ![d] = "Running"]
       ELSE UNCHANGED <<monitors, provisioning>>
    /\ deploymentPollingInterval' = startDeploymentPolling
    /\ UNCHANGED <<selectedTemplate, validationErrors, historyRequests>>
    /\ UNCHANGED nonLegacyVars

\* The deployment finishes on the server.
ProvisioningEnds(d, state) ==
    /\ provisioning[d] = "Running"
    /\ state \in {"Succeeded", "Failed"}
    /\ provisioning' = [provisioning EXCEPT ![d] = state]
    /\ UNCHANGED <<selectedTemplate, deployRequest, validationErrors, monitors,
                   deploymentPollingInterval, historyRequests>>
    /\ UNCHANGED nonLegacyVars

\* checkStatus from its fetch's settlement to its return: TRUE stops the monitoring.
\* answered says the response was ok; otherwise it was not ok or fetch rejected.
checkStatus(m, answered, state) ==
    IF answered /\ state \in {"Succeeded", "Failed"}
    THEN [stop |-> TRUE, attempts |-> m.attempts, notifications |-> m.notifications + 1]
    ELSE IF m.attempts + 1 >= maxAttempts
    THEN [stop |-> TRUE, attempts |-> m.attempts + 1, notifications |-> m.notifications + 1]
    ELSE [stop |-> FALSE, attempts |-> m.attempts + 1, notifications |-> m.notifications]

\* A checkStatus call of deployment d's monitor resumes; its caller (the
\* awaited initial check, or the interval's callback) acts on the result.
StatusSettled(d, answered) ==
    /\ monitors[d].pending > 0
    /\ LET m == monitors[d]
           res == checkStatus(m, answered, provisioning[d])
       IN  monitors' = [monitors EXCEPT ![d] =
               [timer |-> IF m.timer = "initial"
                          THEN (IF res.stop THEN "off" ELSE "on")
                          ELSE (IF res.stop THEN "off" ELSE m.timer),
                attempts |-> res.attempts,
                pending |-> m.pending - 1,
                requests |-> m.requests,
                notifications |-> res.notifications]]
    /\ UNCHANGED <<selectedTemplate, deployRequest, validationErrors, provisioning,
                   deploymentPollingInterval, historyRequests>>
    /\ UNCHANGED nonLegacyVars

\* The monitoring interval fires: its callback calls checkStatus, which sends a
\* status request, whether or not earlier ones were answered.
MonitorTick(d) ==
    /\ monitors[d].timer = "on"
    /\ monitors[d].pending < MaxPendingChecks
    /\ monitors' = [monitors EXCEPT ![d].pending = @ + 1, ![d].requests = @ + 1]
    /\ UNCHANGED <<selectedTemplate, deployRequest, validationErrors, provisioning,
                   deploymentPollingInterval, historyRequests>>
    /\ UNCHANGED nonLegacyVars

\* The deployment polling interval fires: loadDeployments requests the history.
HistoryTick ==
    /\ deploymentPollingInterval
    /\ historyRequests < MaxHistoryPolls
    /\ historyRequests' = historyRequests + 1
    /\ UNCHANGED <<selectedTemplate, deployRequest, validationErrors, monitors, provisioning,
                   deploymentPollingInterval>>
    /\ UNCHANGED nonLegacyVars

InitLegacy ==
    /\ selectedTemplate = "null"
    /\ deployRequest = NoRequest
    /\ validationErrors = <<>>
    /\ monitors = [d \in DeploymentIds |-> NoMonitor]
    /\ provisioning = [d \in DeploymentIds |-> "none"]
    /\ deploymentPollingInterval = FALSE
    /\ historyRequests = 0

NextLegacy ==
    \/ \E t \in Templates : SelectTemplate(t)
    \/ \E parameters \in FormInputs : DeployTemplate(parameters)
    \/ DeployFailed
    \/ \E d \in DeploymentIds \cup {"null"} : DeploySucceeded(d)
    \/ \E d \in DeploymentIds, state \in {"Succeeded", "Failed"} : ProvisioningEnds(d, state)
    \/ \E d \in DeploymentIds, answered \in BOOLEAN : StatusSettled(d, answered)
    \/ \E d \in DeploymentIds : MonitorTick(d)
    \/ HistoryTick

(***************************************************************************)
(* Legacy frontend: cascading dropdowns of the parameters form (utils.js)  *)
(***************************************************************************)
APP_SERVICE_PLANS ==
    << [os |-> "Windows", tier |-> "Free", sku |-> "F1"],
       [os |-> "Windows", tier |-> "Basic", sku |-> "B1"],
       [os |-> "Windows", tier |-> "Standard", sku |-> "S1"],
       [os |-> "Windows", tier |-> "PremiumV2", sku |-> "P1v2"],
       [os |-> "Linux", tier |-> "Basic", sku |-> "B1"],
       [os |-> "Linux", tier |-> "Standard", sku |-> "S1"],
       [os |-> "Linux", tier |-> "PremiumV3", sku |-> "P1v3"] >>

SQL_EDITIONS ==
    << [edition |-> "Basic", compute |-> "5 DTUs", version |-> "12.0"],
       [edition |-> "Standard", compute |-> "S0", version |-> "12.0"],
       [edition |-> "Standard", compute |-> "S1", version |-> "12.0"],
       [edition |-> "Premium", compute |-> "P1", version |-> "12.0"],
       [edition |-> "Premium", compute |-> "P2", version |-> "12.0"],
       [edition |-> "GeneralPurpose", compute |-> "Gen5", version |-> "12.0"],
       [edition |-> "BusinessCritical", compute |-> "Gen5", version |-> "12.0"] >>

STORAGE_ACCOUNTS ==
    << [kind |-> "StorageV2", replication |-> "LRS", performance |-> "Standard"],
       [kind |-> "StorageV2", replication |-> "GRS", performance |-> "Standard"],
       [kind |-> "StorageV2", replication |-> "ZRS", performance |-> "Standard"],
       [kind |-> "StorageV2", replication |-> "LRS", performance |-> "Premium"],
       [kind |-> "BlobStorage", replication |-> "LRS", performance |-> "Standard"],
       [kind |-> "FileStorage", replication |-> "LRS", performance |-> "Premium"] >>

Cascades == {"plan", "sql", "storage"}
Top(c) == CASE c = "plan" -> "param_os" [] c = "sql" -> "param_edition" [] c = "storage" -> "param_kind"
Mid(c) == CASE c = "plan" -> "param_tier" [] c = "sql" -> "param_compute" [] c = "storage" -> "param_replication"
Last(c) == CASE c = "plan" -> "param_sku" [] c = "sql" -> "param_version" [] c = "storage" -> "param_performance"
FieldIds == {Top(c) : c \in Cascades} \cup {Mid(c) : c \in Cascades} \cup {Last(c) : c \in Cascades}

\* allowedValues the template declares for the three top fields; each list has
\* one value the option table has no row for.
TopOptions(c) ==
    CASE c = "plan" -> <<"Windows", "Linux", "linux">>
      [] c = "sql" -> <<"Basic", "Standard", "Premium", "GeneralPurpose", "BusinessCritical", "Hyperscale">>
      [] c = "storage" -> <<"StorageV2", "BlobStorage", "FileStorage", "BlockBlobStorage">>

\* [...new Set(array)]: first occurrences, in order
RECURSIVE Unique(_)
Unique(s) ==
    IF s = <<>> THEN <<>>
    ELSE LET r == Unique(SubSeq(s, 1, Len(s) - 1))
         IN  IF s[Len(s)] \in Range(r) THEN r ELSE Append(r, s[Len(s)])

Column(rows, name) == [i \in 1..Len(rows) |-> rows[i][name]]

Final(s) == IF s = <<>> THEN "undefined" ELSE s[Len(s)]

\* array[0]; undefined on an empty array
First(s) == IF s = <<>> THEN "undefined" ELSE s[1]

\* select.innerHTML = options: the first option becomes the selected one, the
\* value of a select without options is the empty string.
setInnerHTML(opts) == [options |-> opts, value |-> IF opts = <<>> THEN "" ELSE opts[1]]

\* select.value = v: selects the option with that value, or none.
setValue(select, v) == [select EXCEPT !.value = IF v \in Range(select.options) THEN v ELSE ""]

\* a || b on strings
OrElse(a, b) == IF a # "" THEN a ELSE b

updateAppServicePlanDropdowns(f) ==
    LET selectedOs == f["param_os"].value
        filteredByOs == SelectSeq(APP_SERVICE_PLANS, LAMBDA x : x.os = selectedOs)
        tiers == Unique(Column(filteredByOs, "tier"))
        tierSelect == setInnerHTML(tiers)
        selectedTier == OrElse(tierSelect.value, First(tiers))
        filteredByTier == SelectSeq(filteredByOs, LAMBDA x : x.tier = selectedTier)
        skus == Unique(Column(filteredByTier, "sku"))
        skuSelect == setInnerHTML(skus)
    IN  [f EXCEPT !["param_tier"] = setValue(tierSelect, selectedTier),
                  !["param_sku"] = setValue(skuSelect, First(skus))]

updateSqlDropdowns(f) ==
    LET selectedEdition == f["param_edition"].value
        filteredByEdition == SelectSeq(SQL_EDITIONS, LAMBDA x : x.edition = selectedEdition)
        computes == Unique(Column(filteredByEdition, "compute"))
        computeSelect == setInnerHTML(computes)
        selectedCompute == OrElse(computeSelect.value, First(computes))
        filteredByCompute == SelectSeq(filteredByEdition, LAMBDA x : x.compute = selectedCompute)
        versions == Unique(Column(filteredByCompute, "version"))
        versionSelect == setInnerHTML(versions)
    IN  [f EXCEPT !["param_compute"] = setValue(computeSelect, selectedCompute),
                  !["param_version"] = setValue(versionSelect, First(versions))]

updateStorageDropdowns(f) ==
    LET selectedKind == f["param_kind"].value
        filteredByKind == SelectSeq(STORAGE_ACCOUNTS, LAMBDA x : x.kind = selectedKind)
        replications == Unique(Column(filteredByKind, "replication"))
        replicationSelect == setInnerHTML(replications)
        selectedReplication == OrElse(replicationSelect.value, First(replications))
        filteredByReplication ==
            SelectSeq(filteredByKind, LAMBDA x : x.replication = selectedReplication)
        performances == Unique(Column(filteredByReplication, "performance"))
        performanceSelect == setInnerHTML(performances)
    IN  [f EXCEPT !["param_replication"] = setValue(replicationSelect, selectedReplication),
                  !["param_performance"] = setValue(performanceSelect, First(performances))]

\* The 'change' listener registered for cascade c's top and middle fields.
ChangeListener(c, f) ==
    CASE c = "plan" -> updateAppServicePlanDropdowns(f)
      [] c = "sql" -> updateSqlDropdowns(f)
      [] c = "storage" -> updateStorageDropdowns(f)

(***************************************************************************)
(* Legacy frontend: autosave (utils.js setupAutoSave, saveCurrentParameters)*)
(***************************************************************************)
AUTOSAVE_DELAY == 30000

\* autoSaveTimer before the first timeout, or after its timeout has run:
\* a handle of no pending timeout.  sinceEdit before the first edit.
NoTimer == 0 - 1
Never == 0 - 1

\* Time passes in steps of half the delay.
TimeStep == AUTOSAVE_DELAY \div 2

\* collectParameters over the selects of the parameters form
collectParameters(f) == [e \in FieldIds |-> f[e].value]

\* saveCurrentParameters: setItem under autosave_<selectedTemplate>, or nothing
saveCurrentParameters(store, f) ==
    IF selectedTemplate # "null"
    THEN [store EXCEPT ![selectedTemplate] =
             <<[parameters |-> collectParameters(f), template |-> selectedTemplate]>>]
    ELSE store

triggerAutoSaveNoClear ==
    /\ timers' = timers \cup {AUTOSAVE_DELAY}
    /\ autoSaveTimer' = AUTOSAVE_DELAY
    /\ sinceEdit' = 0
    /\ UNCHANGED localStorage

\* The document's 'input' listener for a field of #parametersForm:
\* clearTimeout(autoSaveTimer), then a new timeout of AUTOSAVE_DELAY.
triggerAutoSave ==
    /\ timers' = (timers \ {autoSaveTimer}) \cup {AUTOSAVE_DELAY}
    /\ autoSaveTimer' = AUTOSAVE_DELAY
    /\ sinceEdit' = 0
    /\ UNCHANGED localStorage

Elapse(ms) == IF ms > TimeStep THEN ms - TimeStep ELSE 0

\* TimeStep milliseconds pass.
PassTime ==
    /\ timers # {} \/ (sinceEdit # Never /\ sinceEdit <= AUTOSAVE_DELAY)
    /\ timers' = {Elapse(ms) : ms \in timers}
    /\ autoSaveTimer' = IF autoSaveTimer \in timers THEN Elapse(autoSaveTimer) ELSE autoSaveTimer
    /\ sinceEdit' = IF sinceEdit = Never \/ sinceEdit > AUTOSAVE_DELAY
                    THEN sinceEdit ELSE sinceEdit + TimeStep
    /\ UNCHANGED localStorage
    /\ UNCHANGED <<nonCascadeVars, cascadeVars>>

\* A due timeout runs its callback: saveCurrentParameters().
AutoSaveFires ==
    /\ 0 \in timers
    /\ timers' = timers \ {0}
    /\ autoSaveTimer' = IF autoSaveTimer = 0 THEN NoTimer ELSE autoSaveTimer
    /\ localStorage' = saveCurrentParameters(localStorage, form)
    /\ UNCHANGED sinceEdit
    /\ UNCHANGED <<nonCascadeVars, cascadeVars>>

InitAutoSave ==
    /\ timers = {}
    /\ autoSaveTimer = NoTimer
    /\ sinceEdit = Never
    /\ localStorage = [t \in Templates |-> <<>>]

\* The user picks another option of a top field (os, edition, kind).
ChangeTop(c, v) ==
    /\ v \in Range(form[Top(c)].options)
    /\ v # form[Top(c)].value
    /\ form' = ChangeListener(c, [form EXCEPT ![Top(c)].value = v])
    /\ handled' = handled \cup {c}
    /\ triggerAutoSave
    /\ UNCHANGED nonCascadeVars

\* The user picks another option of a middle field (tier, compute, replication).
ChangeMid(c, v) ==
    /\ v \in Range(form[Mid(c)].options)
    /\ v # form[Mid(c)].value
    /\ form' = ChangeListener(c, [form EXCEPT ![Mid(c)].value = v])
    /\ handled' = handled \cup {c}
    /\ triggerAutoSave
    /\ UNCHANGED nonCascadeVars

\* The user picks another option of a last field (sku, version, performance),
\* which has no listener.
PickLast(c, v) ==
    /\ v \in Range(form[Last(c)].options)
    /\ v # form[Last(c)].value
    /\ form' = [form EXCEPT ![Last(c)].value = v]
    /\ handled' = handled \ {c}
    /\ triggerAutoSave
    /\ UNCHANGED nonCascadeVars

\* showTemplateParameters built the nine selects, each top field on its first
\* allowed value, and setupDropdownCascades ran the three updates.
InitCascade ==
    /\ form = updateStorageDropdowns(updateSqlDropdowns(updateAppServicePlanDropdowns(
                [e \in FieldIds |->
                    IF \E c \in Cascades : e = Top(c)
                    THEN setInnerHTML(TopOptions(CHOOSE c \in Cascades : e = Top(c)))
                    ELSE setInnerHTML(<<>>)])))
    /\ handled = Cascades

NextCascade ==
    \/ \E c \in Cascades : \E v \in Range(TopOptions(c)) : ChangeTop(c, v)
    \/ \E c \in Cascades : \E v \in Range(form[Mid(c)].options) : ChangeMid(c, v)
    \/ \E c \in Cascades : \E v \in Range(form[Last(c)].options) : PickLast(c, v)

(***************************************************************************)
(* Deploy page (part_001): handleDeploy, handleDeploymentComplete          *)
(***************************************************************************)
azure == <<"a","z","u","r","e">>
gcp == <<"g","c","p">>
aws == <<"a","w","s">>

NoTemplate == [name |-> "", cloud_provider |-> <<>>]

\* Templates of the service catalog, and of deep links.
PageTemplates ==
    { [name |-> "vm", cloud_provider |-> azure],
      [name |-> "bucket", cloud_provider |-> gcp],
      [name |-> "queue", cloud_provider |-> aws] }

\* providerTypeMap[cloud_provider] || cloud_provider
providerTypeOf(cloud_provider) ==
    IF cloud_provider = azure THEN <<"t","e","r","r","a","f","o","r","m","-">> \o azure
    ELSE IF cloud_provider = gcp THEN <<"t","e","r","r","a","f","o","r","m","-">> \o gcp
    ELSE cloud_provider

coreFieldsNoZone ==
    {"subscription_id", "project_id", "resource_group", "resource_group_name",
     "location", "region"}

\* The names handleDeploy destructures out of formData.
coreFields ==
    {"subscription_id", "project_id", "resource_group", "resource_group_name",
     "location", "region", "zone"}

\* formData[k]; a missing field is undefined, falsy like ''
Field(formData, k) == IF k \in DOMAIN formData THEN formData[k] ELSE ""

restWithout(formData, names) == [k \in (DOMAIN formData) \ names |-> formData[k]]

\* const { subscription_id, ..., zone, ...templateParameters } = formData
templateParametersOf(formData) == restWithout(formData, coreFields)

\* A stored 'cloudCredentials' item: absent, not JSON, or JSON with the mode
\* and id of each provider ("" for a missing id).
NoSettings ==
    [stored |-> "absent", azure |-> [mode |-> "", subscriptionId |-> ""],
     gcp |-> [mode |-> "", projectId |-> ""]]
Settings(am, sub, gm, proj) ==
    [stored |-> "json", azure |-> [mode |-> am, subscriptionId |-> sub],
     gcp |-> [mode |-> gm, projectId |-> proj]]
StoredSettings ==
    { NoSettings,
      [NoSettings EXCEPT !.stored = "invalid"],
      Settings("custom", "sub-1", "custom", "proj-1"),
      Settings("custom", "", "custom", "proj-1"),
      Settings("default", "sub-1", "custom", ""),
      Settings("custom", "sub-1", "default", "proj-1") }

\* sessionStorage.getItem('cloudCredentials') || localStorage.getItem('cloudCredentials')
savedSettingsOf(creds) == IF creds.session.stored # "absent" THEN creds.session ELSE creds.local

customSubscriptionIdAnyProvider(providerType, creds) ==
    LET settings == savedSettingsOf(creds)
    IN  IF settings.stored # "json" THEN ""
        ELSE IF settings.azure.mode = "custom" THEN settings.azure.subscriptionId
        ELSE IF settings.gcp.mode = "custom" THEN settings.gcp.projectId
        ELSE ""

\* handleDeploy's customSubscriptionId: "" stands for null and undefined
customSubscriptionIdOf(providerType, creds) ==
    LET settings == savedSettingsOf(creds)
    IN  IF settings.stored # "json" THEN ""
        ELSE IF includes(providerType, azure) /\ settings.azure.mode = "custom"
        THEN settings.azure.subscriptionId
        ELSE IF includes(providerType, gcp) /\ settings.gcp.mode = "custom"
        THEN settings.gcp.projectId
        ELSE ""

\* The payload handleDeploy posts.
payloadOf(template, formData, creds) ==
    LET providerType == providerTypeOf(template.cloud_provider)
        templateParameters == templateParametersOf(formData)
        rg == OrElse(Field(formData, "resource_group"), Field(formData, "resource_group_name"))
        coreResourceGroup == IF rg = "" /\ includes(providerType, gcp) THEN "default" ELSE rg
        coreLocation == OrElse(Field(formData, "location"),
                               OrElse(Field(formData, "region"), Field(formData, "zone")))
        customSubscriptionId == customSubscriptionIdOf(providerType, creds)
    IN  [provider_type |-> providerType,
         template_name |-> template.name,
         resource_group |-> coreResourceGroup,
         location |-> coreLocation,
         parameters |-> templateParameters]
        @@ (IF customSubscriptionId # ""
            THEN [subscription_id |-> customSubscriptionId]
            ELSE <<>>)

\* What the wizard hands to onDeploy.
PageForms ==
    { [subscription_id |-> "form-sub", project_id |-> "form-proj", resource_group |-> "rg-1",
       resource_group_name |-> "rg-2", location |-> "westeurope", region |-> "eu",
       zone |-> "eu-a", vm_size |-> "B1", name |-> "web"],
      [resource_group_name |-> "rg-2", region |-> "eu", vm_size |-> "B1"],
      [zone |-> "eu-a", name |-> ""],
      [vm_size |-> "B1"] }

\* ServiceCatalog's onSelectTemplate
handleSelectTemplate(template) ==
    /\ route = "deploy"
    /\ pageTemplate = NoTemplate
    /\ pageTemplate' = template
    /\ pageError' = ""
    /\ UNCHANGED <<deploying, pageDeploymentId, toasts, deployCalls, cloudCredentials,
                   navTimers, route>>
    /\ UNCHANGED nonDeployVars

\* 'Back to Catalog', or the wizard's onCancel
handleBackToCatalog ==
    /\ route = "deploy"
    /\ pageTemplate # NoTemplate
    /\ pageTemplate' = NoTemplate
    /\ deploying' = FALSE
    /\ pageDeploymentId' = "null"
    /\ pageError' = ""
    /\ UNCHANGED <<toasts, deployCalls, cloudCredentials, navTimers, route>>
    /\ UNCHANGED nonDeployVars

\* The wizard's onDeploy: handleDeploy up to the await of axios.post.
handleDeploy(formData) ==
    /\ route = "deploy"
    /\ pageTemplate # NoTemplate
    /\ ~deploying
    /\ Len(deployCalls) + Len(toasts) < MaxToasts
    /\ deploying' = TRUE
    /\ pageError' = ""
    /\ deployCalls' = Append(deployCalls,
          [template |-> pageTemplate,
           formData |-> formData,
           payload |-> payloadOf(pageTemplate, formData, cloudCredentials)])
    /\ UNCHANGED <<pageTemplate, pageDeploymentId, toasts, cloudCredentials, navTimers, route>>
    /\ UNCHANGED nonDeployVars

\* array.join(sep) over strings
RECURSIVE join(_, _)
join(parts, sep) ==
    IF parts = <<>> THEN ""
    ELSE IF Len(parts) = 1 THEN parts[1]
    ELSE parts[1] \o sep \o join(Tail(parts), sep)

RECURSIVE mapFieldMsg(_)
\* detail.map(error => `${error.loc?.join('.') || 'unknown'}: ${error.msg}`)
mapFieldMsg(detail) ==
    IF detail = <<>> THEN <<>>
    ELSE LET field == OrElse(join(detail[1].loc, "."), "unknown")
         IN  <<field \o ": " \o detail[1].msg>> \o mapFieldMsg(Tail(detail))

\* JSON.stringify of an error object with fields message, details and code
stringify(o) ==
    "{message:" \o o.message \o ",details:" \o o.details \o ",code:" \o o.code \o "}"

NoResponse ==
    [status |-> 0, detailKind |-> "none", detailArray |-> <<>>, detailString |-> "",
     errorKind |-> "none", errorString |-> "",
     errorObject |-> [message |-> "", details |-> "", code |-> ""], message |-> ""]

\* A rejection of axios.post, or an exception thrown in the try block:
\* response is <<>> when err.response is undefined.
Rejection(response, message) == [response |-> response, message |-> message]

errorMessageGeneric(err) == "Failed to create deployment"

\* The catch block's errorMessage.
errorMessageOf(err) ==
    LET r == IF err.response = <<>> THEN NoResponse ELSE err.response[1]
    IN  IF r.status = 422 /\ r.detailKind = "array"
        THEN "Validation Error: " \o join(mapFieldMsg(r.detailArray), ", ")
        ELSE IF r.errorKind = "object"
        THEN OrElse(r.errorObject.message, OrElse(r.errorObject.details, stringify(r.errorObject)))
        ELSE IF r.errorKind = "string" /\ r.errorString # ""
        THEN r.errorString
        ELSE IF r.message # "" THEN r.message
        ELSE IF r.detailKind = "string" /\ r.detailString # "" THEN r.detailString
        ELSE IF err.message # "" THEN err.message
        ELSE "Failed to create deployment"

Toast(message, type) == [message |-> message, type |-> type]

\* The calls still awaiting their answer once call i has resumed.
resumed(calls, i) == [k \in 1..(Len(calls) - 1) |-> IF k < i THEN calls[k] ELSE calls[k + 1]]

\* handleDeploy's catch block
catchDeploy(call, err) ==
    /\ pageError' = errorMessageOf(err)
    /\ deploying' = FALSE
    /\ toasts' = Append(toasts, Toast(errorMessageOf(err), "error"))
    /\ deployCalls' = resumed(deployCalls, call)
    /\ UNCHANGED <<pageTemplate, pageDeploymentId, cloudCredentials, navTimers, route>>
    /\ UNCHANGED nonDeployVars

\* axios.post rejects: a non-2xx answer or no answer at all
DeployRejected(call, err) ==
    /\ route = "deploy"
    /\ call \in 1..Len(deployCalls)
    /\ Len(toasts) < MaxToasts
    /\ catchDeploy(call, err)

\* axios.post resolves with response.data = data: the rest of the try block.
\* data.data is <<>> when missing, and its deployment_id "null" when missing.
DeployAnswered(call, data) ==
    /\ route = "deploy"
    /\ call \in 1..Len(deployCalls)
    /\ Len(toasts) < MaxToasts
    /\ IF data.success
       THEN IF data.data = <<>>
            THEN catchDeploy(call,
                   Rejection(<<>>, "Cannot read properties of undefined (reading 'deployment_id')"))
            ELSE /\ pageDeploymentId' = data.data[1].deployment_id
                 /\ toasts' = Append(toasts,
                       Toast("Deployment created successfully! Starting deployment...", "success"))
                 /\ deployCalls' = resumed(deployCalls, call)
                 /\ UNCHANGED <<pageTemplate, deploying, pageError, cloudCredentials,
                                navTimers, route>>
                 /\ UNCHANGED nonDeployVars
       ELSE /\ deployCalls' = resumed(deployCalls, call)
            /\ UNCHANGED <<pageTemplate, deploying, pageDeploymentId, pageError, toasts,
                           cloudCredentials, navTimers, route>>
            /\ UNCHANGED nonDeployVars

NAVIGATE_DELAY == 2000
NavStep == NAVIGATE_DELAY \div 2

handleDeploymentCompleteAlwaysNavigates(result) ==
    /\ toasts' = Append(toasts, Toast("Deployment completed successfully!", "success"))
    /\ navTimers' = navTimers \cup {[to |-> pageDeploymentId, remaining |-> NAVIGATE_DELAY]}
    /\ UNCHANGED <<pageTemplate, deploying, pageDeploymentId, pageError, deployCalls,
                   cloudCredentials, route>>
    /\ UNCHANGED nonDeployVars

\* The relay's onComplete
handleDeploymentComplete(result) ==
    IF result.status = "completed"
    THEN /\ toasts' = Append(toasts, Toast("Deployment completed successfully!", "success"))
         /\ navTimers' = navTimers \cup
               {[to |-> pageDeploymentId, remaining |-> NAVIGATE_DELAY]}
         /\ UNCHANGED <<pageTemplate, deploying, pageDeploymentId, pageError, deployCalls,
                        cloudCredentials, route>>
         /\ UNCHANGED nonDeployVars
    ELSE IF result.status = "failed"
    THEN /\ pageError' = OrElse(result.error, "Deployment failed")
         /\ deploying' = FALSE
         /\ toasts' = Append(toasts, Toast(OrElse(result.error, "Deployment failed"), "error"))
         /\ UNCHANGED <<pageTemplate, pageDeploymentId, deployCalls, cloudCredentials,
                        navTimers, route>>
         /\ UNCHANGED nonDeployVars
    ELSE UNCHANGED vars

\* The relay, rendered while deploying && deploymentId, reports the end of
\* the deployment it was given.
RelayReports(result) ==
    /\ route = "deploy"
    /\ deploying
    /\ pageDeploymentId # "null"
    /\ Len(toasts) < MaxToasts
    /\ handleDeploymentComplete(result)

\* Time passes for the navigate timeouts.
NavTick ==
    /\ navTimers # {}
    /\ \E t \in navTimers : t.remaining > 0
    /\ navTimers' = {[t EXCEPT !.remaining = IF @ > NavStep THEN @ - NavStep ELSE 0] :
                        t \in navTimers}
    /\ UNCHANGED <<pageTemplate, deploying, pageDeploymentId, pageError, toasts, deployCalls,
                   cloudCredentials, route>>
    /\ UNCHANGED nonDeployVars

\* () => navigate(`/deployments/${deploymentId}`)
NavigateFires(t) ==
    /\ t \in navTimers
    /\ t.remaining = 0
    /\ navTimers' = navTimers \ {t}
    /\ route' = t.to
    /\ UNCHANGED <<pageTemplate, deploying, pageDeploymentId, pageError, toasts, deployCalls,
                   cloudCredentials>>
    /\ UNCHANGED nonDeployVars

InitDeploy ==
    /\ pageTemplate = NoTemplate
    /\ deploying = FALSE
    /\ pageDeploymentId = "null"
    /\ pageError = ""
    /\ toasts = <<>>
    /\ deployCalls = <<>>
    /\ cloudCredentials = [session |-> NoSettings, local |-> NoSettings]
    /\ navTimers = {}
    /\ route = "deploy"

(***************************************************************************)
(* User management page (part_002): fetchUsers, getRolePermissions         *)
(***************************************************************************)
\* A JavaScript value a property read can give: an array of strings, a
\* function or object inherited from Object.prototype, or undefined.
Arr(items) == [type |-> "array", items |-> items]
Inherited(name) == [type |-> IF name = "__proto__" THEN "object" ELSE "function", name |-> name]
Undefined == [type |-> "undefined"]

\* The object literal of getRolePermissions
permissions ==
    [admin |-> Arr(<<"read", "write", "delete", "manage_users">>),
     user |-> Arr(<<"read", "write">>),
     viewer |-> Arr(<<"read">>)]

\* Property names every object literal inherits from Object.prototype.
ObjectPrototype ==
    {"constructor", "toString", "toLocaleString", "valueOf", "hasOwnProperty",
     "isPrototypeOf", "propertyIsEnumerable", "__proto__"}

\* object[key]: the own property, else the inherited one, else undefined
Get(object, key) ==
    IF key \in DOMAIN object THEN object[key]
    ELSE IF key \in ObjectPrototype THEN Inherited(key)
    ELSE Undefined

\* permissions[role] || []
getRolePermissions(role) ==
    IF Get(permissions, role) = Undefined THEN Arr(<<>>) ELSE Get(permissions, role)

\* Roles the server's user list can carry.
Roles == {"admin", "user", "viewer", "", "owner", "Admin", "constructor"}

RECURSIVE ListsUpTo(_, _)
ListsUpTo(S, n) ==
    IF n = 0 THEN {<<>>}
    ELSE ListsUpTo(S, n - 1) \cup {Append(l, x) : l \in ListsUpTo(S, n - 1), x \in S}

\* fetchUsers up to the await of axios.get
fetchUsers ==
    /\ usersRequests < MaxInFlight
    /\ usersLoading' = TRUE
    /\ usersRequests' = usersRequests + 1
    /\ UNCHANGED users
    /\ UNCHANGED nonUsersVars

\* fetchUsers resumes with a successful answer carrying a user list.
UsersAnswered(list) ==
    /\ usersRequests > 0
    /\ users' = list
    /\ usersLoading' = FALSE
    /\ usersRequests' = usersRequests - 1
    /\ UNCHANGED nonUsersVars

\* fetchUsers resumes with success false, or axios.get rejected.
UsersFailed ==
    /\ usersRequests > 0
    /\ usersLoading' = FALSE
    /\ usersRequests' = usersRequests - 1
    /\ UNCHANGED users
    /\ UNCHANGED nonUsersVars

\* The Permissions cell of each row of the users table.
PermissionCells == [i \in 1..Len(users) |-> getRolePermissions(users[i])]

InitUsers ==
    /\ users = <<>>
    /\ usersLoading = TRUE
    /\ usersRequests = 0

(***************************************************************************)
(* AuthProvider (part_001), ProtectedRoute                                 *)
(***************************************************************************)
NoUser == [account |-> "null", role |-> "", hasPermissions |-> FALSE, permissions |-> {}]

\* A user object: the permissions field may be missing.
UserObject(account, role, hasPermissions, perms) ==
    [account |-> account, role |-> role, hasPermissions |-> hasPermissions,
     permissions |-> IF hasPermissions THEN perms ELSE {}]

\* JSON.stringify(user), and a stored text that is not JSON
stringifyUser(u) == [valid |-> TRUE, value |-> u]
NotJson == [valid |-> FALSE, value |-> NoUser]

EmptyStorage == [auth_token |-> "null", auth_user |-> <<>>]

NoCall == [kind |-> "none", status |-> 0]

\* logout: both items removed, the three states cleared
logout ==
    /\ authStorage' = EmptyStorage
    /\ authToken' = "null"
    /\ authUser' = NoUser
    /\ isAuthenticated' = FALSE

\* The mount effect: the session is restored from localStorage.
AuthMount ==
    /\ authLoading
    /\ IF authStorage.auth_token # "null" /\ authStorage.auth_user # <<>>
       THEN IF authStorage.auth_user[1].valid
            THEN /\ authToken' = authStorage.auth_token
                 /\ authUser' = authStorage.auth_user[1].value
                 /\ isAuthenticated' = TRUE
                 /\ UNCHANGED authStorage
            ELSE logout
       ELSE UNCHANGED <<authToken, authUser, isAuthenticated, authStorage>>
    /\ authLoading' = FALSE
    /\ UNCHANGED <<authCalls, authSettled>>
    /\ UNCHANGED nonAuthVars

\* A call of login, updateUser or getCurrentUser reaches its await.
AuthCall(kind, account) ==
    /\ ~authLoading
    /\ Len(authCalls) < MaxAuthCalls
    /\ CASE kind = "login" -> TRUE
         [] kind = "updateUser" -> authUser # NoUser /\ authToken # "null" /\ account = authUser.account
         [] kind = "getCurrentUser" -> authToken # "null" /\ account = authToken
    /\ authCalls' = Append(authCalls, [kind |-> kind, account |-> account])
    /\ UNCHANGED <<authUser, authToken, authLoading, isAuthenticated, authStorage, authSettled>>
    /\ UNCHANGED nonAuthVars

\* The logout button
Logout ==
    /\ ~authLoading
    /\ isAuthenticated
    /\ logout
    /\ UNCHANGED <<authLoading, authCalls, authSettled>>
    /\ UNCHANGED nonAuthVars

\* Call i resumes with response.data.success true; its data holds a user
\* object and, read by getCurrentUser only, data.permissions beside it:
\* <<>> when the field is missing, else <<the permissions>>.
AuthAnswered(i, userData, perms) ==
    /\ i \in 1..Len(authCalls)
    /\ userData.account = authCalls[i].account
    /\ CASE authCalls[i].kind = "login" ->
              /\ authStorage' = [auth_token |-> userData.account,
                                 auth_user |-> <<stringifyUser(userData)>>]
              /\ authToken' = userData.account
              /\ authUser' = userData
              /\ isAuthenticated' = TRUE
         [] authCalls[i].kind = "updateUser" ->
              /\ authStorage' = [authStorage EXCEPT !.auth_user = <<stringifyUser(userData)>>]
              /\ authUser' = userData
              /\ UNCHANGED <<authToken, isAuthenticated>>
         [] authCalls[i].kind = "getCurrentUser" ->
              LET userWithPermissions ==
                    [userData EXCEPT !.hasPermissions = perms # <<>>,
                                     !.permissions = IF perms # <<>> THEN perms[1] ELSE {}]
              IN  /\ authStorage' =
                        [authStorage EXCEPT !.auth_user = <<stringifyUser(userWithPermissions)>>]
                  /\ authUser' = userWithPermissions
                  /\ UNCHANGED <<authToken, isAuthenticated>>
    /\ authCalls' = resumed(authCalls, i)
    /\ authSettled' = [kind |-> authCalls[i].kind, status |-> 200]
    /\ UNCHANGED authLoading
    /\ UNCHANGED nonAuthVars

AuthFailedAlwaysLogout(i, status) ==
    /\ i \in 1..Len(authCalls)
    /\ IF authCalls[i].kind = "getCurrentUser"
       THEN logout
       ELSE UNCHANGED <<authUser, authToken, isAuthenticated, authStorage>>
    /\ authCalls' = resumed(authCalls, i)
    /\ authSettled' = [kind |-> authCalls[i].kind, status |-> status]
    /\ UNCHANGED authLoading
    /\ UNCHANGED nonAuthVars

\* Call i resumes with success false (status 200), or its request rejected
\* with an error status (0 when there was no response).
AuthFailed(i, status) ==
    /\ i \in 1..Len(authCalls)
    /\ IF authCalls[i].kind = "getCurrentUser" /\ status = 401
       THEN logout
       ELSE UNCHANGED <<authUser, authToken, isAuthenticated, authStorage>>
    /\ authCalls' = resumed(authCalls, i)
    /\ authSettled' = [kind |-> authCalls[i].kind, status |-> status]
    /\ UNCHANGED authLoading
    /\ UNCHANGED nonAuthVars

hasPermission(permission) ==
    IF authUser = NoUser \/ ~authUser.hasPermissions THEN FALSE
    ELSE permission \in authUser.permissions

\* What ProtectedRoute renders; requiredPermission is "null" for none.
ProtectedRoute(requireAuth, requiredPermission) ==
    IF authLoading THEN "loading"
    ELSE IF requireAuth /\ ~isAuthenticated THEN "/login"
    ELSE IF requiredPermission # "null" /\ ~hasPermission(requiredPermission) THEN "/"
    ELSE "children"

(***************************************************************************)
(* Legacy parameters form: showTemplateParameters, collectParameters       *)
(* A text is a sequence of tokens: punctuation, white space, a number      *)
(* literal ("1", "2"), a quoted string literal ("s", "k") or a bare word.  *)
(***************************************************************************)
JsonStrings == {"s", "k"}
JsonScalars == JsonStrings \cup {"1", "2"}
SyntaxError == [kind |-> "SyntaxError"]
EmptyArray == [kind |-> "array", items |-> <<>>]
EmptyObject == [kind |-> "object", members |-> <<>>]

\* The elements of an array literal between its brackets
RECURSIVE parseItems(_)
parseItems(t) ==
    IF t = <<>> \/ t[1] \notin JsonScalars THEN [ok |-> FALSE, items |-> <<>>]
    ELSE IF Len(t) = 1 THEN [ok |-> TRUE, items |-> <<t[1]>>]
    ELSE IF t[2] # "," THEN [ok |-> FALSE, items |-> <<>>]
    ELSE LET rest == parseItems(SubSeq(t, 3, Len(t)))
         IN  [ok |-> rest.ok, items |-> IF rest.ok THEN <<t[1]>> \o rest.items ELSE <<>>]

\* The members of an object literal between its braces
RECURSIVE parseMembers(_)
parseMembers(t) ==
    IF Len(t) < 3 \/ t[1] \notin JsonStrings \/ t[2] # ":" \/ t[3] \notin JsonScalars
    THEN [ok |-> FALSE, members |-> <<>>]
    ELSE IF Len(t) = 3 THEN [ok |-> TRUE, members |-> << <<t[1], t[3]>> >>]
    ELSE IF t[4] # "," THEN [ok |-> FALSE, members |-> <<>>]
    ELSE LET rest == parseMembers(SubSeq(t, 5, Len(t)))
         IN  [ok |-> rest.ok,
              members |-> IF rest.ok THEN << <<t[1], t[3]>> >> \o rest.members ELSE <<>>]

\* JSON.parse of a scalar or of an array or object of scalars; SyntaxError when it throws
JSONparse(text) ==
    LET t == SelectSeq(text, LAMBDA c : ~IsSpace(c))
        inner == SubSeq(t, 2, Len(t) - 1)
    IN  IF Len(t) = 1 /\ t[1] \in JsonScalars THEN [kind |-> "scalar", value |-> t[1]]
        ELSE IF Len(t) >= 2 /\ t[1] = "[" /\ t[Len(t)] = "]"
        THEN IF inner = <<>> THEN EmptyArray
             ELSE IF parseItems(inner).ok
                  THEN [kind |-> "array", items |-> parseItems(inner).items]
                  ELSE SyntaxError
        ELSE IF Len(t) >= 2 /\ t[1] = "{" /\ t[Len(t)] = "}"
        THEN IF inner = <<>> THEN EmptyObject
             ELSE IF parseMembers(inner).ok
                  THEN [kind |-> "object", members |-> parseMembers(inner).members]
                  ELSE SyntaxError
        ELSE SyntaxError

RECURSIVE stringifyItems(_)
stringifyItems(items) ==
    IF Len(items) = 1 THEN <<"\n", items[1]>>
    ELSE <<"\n", items[1], ",">> \o stringifyItems(Tail(items))

RECURSIVE stringifyMembers(_)
stringifyMembers(members) ==
    IF Len(members) = 1 THEN <<"\n", members[1][1], ":", " ", members[1][2]>>
    ELSE <<"\n", members[1][1], ":", " ", members[1][2], ",">> \o stringifyMembers(Tail(members))

\* JSON.stringify(value, null, 2)
stringifyValue(v) ==
    IF v.kind = "array"
    THEN IF v.items = <<>> THEN <<"[", "]">> ELSE <<"[">> \o stringifyItems(v.items) \o <<"\n", "]">>
    ELSE IF v.kind = "object"
    THEN IF v.members = <<>> THEN <<"{", "}">>
         ELSE <<"{">> \o stringifyMembers(v.members) \o <<"\n", "}">>
    ELSE <<v.value>>

\* A parameter of the schema; defaultValue is <<>> when the schema gives none.
Param(type, defaultValue, allowedValues) ==
    [type |-> type, defaultValue |-> defaultValue, allowedValues |-> allowedValues]
NoParam == Param("none", <<>>, <<>>)
ParamNames == {"tags", "subnets", "settings", "sku"}

\* param.defaultValue as a condition
hasDefault(param) ==
    /\ param.defaultValue # <<>>
    /\ ~(param.defaultValue[1].kind = "string" /\ param.defaultValue[1].text = <<>>)

\* The control showTemplateParameters builds for a parameter, with its initial value
controlFor(name, param) ==
    IF param.allowedValues # <<>>
    THEN [control |-> "select",
          value |-> IF /\ param.defaultValue # <<>>
                       /\ param.defaultValue[1].kind = "string"
                       /\ \E i \in 1..Len(param.allowedValues) :
                              param.allowedValues[i] = param.defaultValue[1].text
                    THEN param.defaultValue[1].text
                    ELSE param.allowedValues[1]]
    ELSE IF param.type = "bool"
    THEN [control |-> "checkbox", value |-> <<"o", "n">>]
    ELSE IF param.type = "array"
    THEN [control |-> "textarea",
          value |-> IF hasDefault(param) THEN stringifyValue(param.defaultValue[1])
                    ELSE <<"[", "]">>]
    ELSE IF param.type = "object" \/ name = "tags"
    THEN [control |-> "textarea",
          value |-> IF hasDefault(param) THEN stringifyValue(param.defaultValue[1])
                    ELSE <<"{", "}">>]
    ELSE [control |-> "text",
          value |-> IF hasDefault(param) THEN param.defaultValue[1].text ELSE <<>>]

\* showTemplateParameters: one control per parameter of the schema
ShowTemplateParameters(schema) ==
    /\ paramSchema' = schema
    /\ paramInputs' = [n \in ParamNames |->
                          IF schema[n] = NoParam THEN <<>>
                          ELSE <<controlFor(n, schema[n]).value>>]
    /\ UNCHANGED <<collected, nonParamVars>>

\* The user types into a text control or picks an option of a dropdown.
EditParameter(name, text) ==
    /\ paramInputs[name] # <<>>
    /\ controlFor(name, paramSchema[name]).control # "checkbox"
    /\ controlFor(name, paramSchema[name]).control = "select"
          => \E i \in 1..Len(paramSchema[name].allowedValues) :
                 paramSchema[name].allowedValues[i] = text
    /\ paramInputs' = [paramInputs EXCEPT ![name] = <<text>>]
    /\ UNCHANGED <<paramSchema, collected, nonParamVars>>

\* What collectParameters stores for one named input of the form
collectInput(name, value) ==
    IF name = "tags"
    THEN LET tagsValue == trim(value)
         IN  IF tagsValue # <<>>
             THEN IF tagsValue[1] = "{" /\ tagsValue[Len(tagsValue)] = "}"
                  THEN IF JSONparse(tagsValue) = SyntaxError THEN EmptyObject
                       ELSE JSONparse(tagsValue)
                  ELSE EmptyObject
             ELSE EmptyObject
    ELSE [kind |-> "string", text |-> value]

\* collectParameters on a page without the main form's resourceGroup, location
\* and subscription fields: the named inputs of #parametersForm
CollectParameters ==
    /\ collected' = <<[n \in {m \in ParamNames : paramInputs[m] # <<>>} |->
                          collectInput(n, paramInputs[n][1])]>>
    /\ UNCHANGED <<paramSchema, paramInputs, nonParamVars>>

InitParams ==
    /\ paramSchema = [n \in ParamNames |-> NoParam]
    /\ paramInputs = [n \in ParamNames |-> <<>>]
    /\ collected = <<>>

(***************************************************************************)
(* ServiceCatalog.jsx                                                      *)
(***************************************************************************)
MaxCatalogCalls == 2
Providers == {"azure", "gcp"}

\* fetchTemplates: setLoading(true), then await templateAPI.getTemplates(provider)
fetchTemplates(calls, p) == Append(calls, [provider |-> p])

\* Mount: useEffect([]) calls fetchTemplateCounts, useEffect([provider]) calls fetchTemplates.
CatalogMount ==
    /\ ~catalogMounted
    /\ catalogMounted' = TRUE
    /\ countsCall' = "pending"
    /\ catalogLoading' = TRUE
    /\ catalogCalls' = fetchTemplates(catalogCalls, catalogProvider)
    /\ UNCHANGED <<catalogProvider, catalogTemplates, templateCounts, catalogFailed,
                   nonCatalogVars>>

\* onClick={() => setProvider(p)}; the effect of [provider] runs when the value changed.
SetProvider(p) ==
    /\ catalogMounted
    /\ p # catalogProvider
    /\ Len(catalogCalls) < MaxCatalogCalls
    /\ catalogProvider' = p
    /\ catalogLoading' = TRUE
    /\ catalogCalls' = fetchTemplates(catalogCalls, p)
    /\ catalogFailed' = FALSE
    /\ UNCHANGED <<catalogMounted, catalogTemplates, templateCounts, countsCall,
                   nonCatalogVars>>

\* fetchTemplates resumes: outcome is "success", "unsuccessful" (success: false) or "error".
TemplatesAnswered(i, outcome, list) ==
    /\ i \in 1..Len(catalogCalls)
    /\ catalogTemplates' = IF outcome = "success" THEN list ELSE catalogTemplates
    /\ catalogLoading' = FALSE
    /\ catalogCalls' = SubSeq(catalogCalls, 1, i - 1) \o SubSeq(catalogCalls, i + 1, Len(catalogCalls))
    /\ catalogFailed' = (catalogFailed \/ outcome # "success")
    /\ UNCHANGED <<catalogMounted, catalogProvider, templateCounts, countsCall,
                   nonCatalogVars>>

\* fetchTemplateCounts resumes after Promise.all: each answer may carry success: false,
\* or one of the two requests was rejected.
CountsAnswered(rejected, azureList, gcpList) ==
    /\ countsCall = "pending"
    /\ countsCall' = "done"
    /\ templateCounts' = IF rejected THEN templateCounts
                         ELSE [azure |-> Len(azureList), gcp |-> Len(gcpList)]
    /\ UNCHANGED <<catalogMounted, catalogProvider, catalogTemplates, catalogLoading,
                   catalogCalls, catalogFailed, nonCatalogVars>>

InitCatalog ==
    /\ catalogMounted = FALSE
    /\ catalogProvider = "azure"
    /\ catalogTemplates = <<>>
    /\ templateCounts = [azure |-> 0, gcp |-> 0]
    /\ catalogLoading = FALSE
    /\ catalogCalls = <<>>
    /\ countsCall = "none"
    /\ catalogFailed = FALSE

(***************************************************************************)
(* resourceGroups.js: the delete button of a listed group;                 *)
(* utils.js: showConfirmDialog                                             *)
(***************************************************************************)
MaxDialogs == 2
NoModal == [rg |-> "", handler |-> 0, state |-> "none"]

\* resolve of the dialog's Promise: only the first call settles it, and the click handler
\* awaiting it resumes once.
resolveAgain(h, value) == [h EXCEPT !.result = value, !.delivered = @ + 1]

resolve(h, value) ==
    IF h.result = "pending" THEN [h EXCEPT !.result = value, !.delivered = @ + 1] ELSE h

\* The subscription dropdown of the page; the open modal covers it.
SelectSubscription(s) ==
    /\ confirmModal = NoModal
    /\ rgSubscription' = s
    /\ UNCHANGED <<confirmModal, deleteHandlers, deleteRequests, rgError, nonDialogVars>>

\* Click on a group's Delete button, up to "await showConfirmDialog(...)". No modal is in
\* the document (the open modal covers the list), so there is no existing modal to remove.
ClickDelete(rgName) ==
    /\ confirmModal = NoModal
    /\ Len(deleteHandlers) < MaxDialogs
    /\ deleteHandlers' = Append(deleteHandlers,
                                [rg |-> rgName, result |-> "pending", delivered |-> 0])
    /\ confirmModal' = [rg |-> rgName, handler |-> Len(deleteHandlers) + 1, state |-> "shown"]
    /\ UNCHANGED <<deleteRequests, rgSubscription, rgError, nonDialogVars>>

\* #confirmBtn is clicked (it stays clickable while the modal fades out):
\* bootstrapModal.hide(), resolve(true); the click handler of the Delete button resumes
\* with confirmed = true, checks the subscription and sends the DELETE request.
PressConfirm ==
    /\ confirmModal # NoModal
    /\ LET h == deleteHandlers[confirmModal.handler]
           resumes == resolve(h, "true").delivered > h.delivered
       IN  /\ confirmModal' = [confirmModal EXCEPT !.state = "hiding"]
           /\ deleteHandlers' = [deleteHandlers EXCEPT ![confirmModal.handler] = resolve(h, "true")]
           /\ IF resumes /\ rgSubscription # ""
              THEN /\ deleteRequests' = Append(deleteRequests,
                                               [rg |-> h.rg, subscription_id |-> rgSubscription,
                                                handler |-> confirmModal.handler,
                                                state |-> "sent"])
                   /\ UNCHANGED rgError
              ELSE /\ rgError' = IF resumes THEN "Please select a subscription first" ELSE rgError
                   /\ UNCHANGED deleteRequests
    /\ UNCHANGED <<rgSubscription, nonDialogVars>>

\* A data-bs-dismiss button, the Escape key or a click beside the dialog: the modal hides.
Dismiss ==
    /\ confirmModal # NoModal
    /\ confirmModal.state = "shown"
    /\ confirmModal' = [confirmModal EXCEPT !.state = "hiding"]
    /\ UNCHANGED <<deleteHandlers, deleteRequests, rgSubscription, rgError, nonDialogVars>>

\* hidden.bs.modal: modal.remove(), resolve(false); a handler that resumes with
\* confirmed = false returns.
Hidden ==
    /\ confirmModal # NoModal
    /\ confirmModal.state = "hiding"
    /\ confirmModal' = NoModal
    /\ deleteHandlers' = [deleteHandlers EXCEPT ![confirmModal.handler] = resolve(@, "false")]
    /\ UNCHANGED <<deleteRequests, rgSubscription, rgError, nonDialogVars>>

\* The DELETE request is answered; a response that is not ok is reported.
DeleteAnswered(i, ok) ==
    /\ i \in 1..Len(deleteRequests)
    /\ deleteRequests[i].state = "sent"
    /\ deleteRequests' = [deleteRequests EXCEPT ![i].state = IF ok THEN "ok" ELSE "failed"]
    /\ rgError' = IF ok THEN rgError ELSE "Failed to delete resource group"
    /\ UNCHANGED <<confirmModal, deleteHandlers, rgSubscription, nonDialogVars>>

InitDialog ==
    /\ confirmModal = NoModal
    /\ deleteHandlers = <<>>
    /\ deleteRequests = <<>>
    /\ rgSubscription = ""
    /\ rgError = ""

\* AppContent's permission-guarded routes
GuardedRoutes == [deploy |-> "write", users |-> "manage_users"]

InitAuth ==
    /\ authUser = NoUser
    /\ authToken = "null"
    /\ authLoading = TRUE
    /\ isAuthenticated = FALSE
    /\ authStorage = EmptyStorage
    /\ authCalls = <<>>
    /\ authSettled = NoCall

InitLater == InitAuth /\ InitParams /\ InitCatalog /\ InitDialog

(***************************************************************************)
(* Details view: phase steps of the progress indicator                     *)
(***************************************************************************)
\* The steps the indicator renders, and the list isCompleted searches the
\* reported phase in.
PhaseSteps == <<"initializing", "validating", "planning", "applying", "finalizing">>
ReachedPhases == <<"validating", "planning", "applying", "finalizing", "completed">>

\* Array.prototype.indexOf: the 0-based index of the first occurrence, or -1
indexOf(array, x) ==
    IF \E i \in 1..Len(array) : array[i] = x
    THEN (CHOOSE i \in 1..Len(array) : array[i] = x /\ \A j \in 1..(i - 1) : array[j] # x) - 1
    ELSE 0 - 1

\* taskInfo?.phase === phase.name
isActive(info, name) == info # "null" /\ info = name

\* taskInfo && ReachedPhases.indexOf(taskInfo.phase) > PhaseSteps.indexOf(phase.name)
isCompleted(info, name) ==
    info # "null" /\ indexOf(ReachedPhases, info) > indexOf(PhaseSteps, name)

(***************************************************************************)
(* Specifications                                                          *)
(***************************************************************************)
\* The React application is not loaded: no view is mounted, nothing is in flight.
InitNoView ==
    /\ ddMounted = FALSE
    /\ id = "A"
    /\ deployment = NullDeployment
    /\ loading = TRUE
    /\ error = "null"
    /\ taskInfo = "null"
    /\ interval = "none"
    /\ requests = EmptyBag
    /\ srv = [i \in Ids |-> "pending"]
    /\ InitViewer

\* The React application on the route of a deployment's details.
InitDetailsPage ==
    InitDetails /\ InitViewer /\ InitLegacy /\ InitCascade /\ InitAutoSave /\ InitDeploy /\ InitUsers /\ InitLater

\* The legacy frontend with its parameters form open.
InitLegacyPage == InitNoView /\ InitLegacy /\ InitCascade /\ InitAutoSave /\ InitDeploy /\ InitUsers /\ InitLater

\* Inputs of the details view's runs: one stream payload, one task phase.
DetailsLogEvents == {QuotaEvent}
DetailsTaskPhases == {"applying"}


\* The details view on its own: the viewer mounts and unmounts, its stream stays silent.
NextPolling ==
    \/ \E i \in Ids : ServerAdvance(i)
    \/ \E r \in BagToSet(requests), st \in Statuses : ReceiveDeployment(r, st)
    \/ \E r \in BagToSet(requests), ok \in BOOLEAN, phase \in DetailsTaskPhases :
          ReceiveTask(r, ok, phase)
    \/ \E r \in BagToSet(requests) : ReceiveError(r)
    \/ TimerTick
    \/ \E j \in Ids : ChangeId(j)
    \/ UnmountDetails

SpecPolling == InitDetailsPage /\ [][NextPolling]_vars

\* A viewer right after its first render: the details view shows a pending or
\* running deployment, no request is in flight.
InitViewing ==
    /\ ddMounted = TRUE
    /\ id \in Ids
    /\ \E st \in NonTerminal :
          /\ srv = [i \in Ids |-> st]
          /\ deployment = DeploymentData(id, st)
    /\ loading = FALSE
    /\ error = "null"
    /\ taskInfo = "null"
    /\ interval = id
    /\ requests = EmptyBag
    /\ viewerMounted = TRUE
    /\ deploymentId = id
    /\ logs = <<>>
    /\ filteredLogs = <<>>
    /\ levelFilter = ALL
    /\ phaseFilter = ALL
    /\ searchQuery = <<>>
    /\ esState = "open"
    /\ received = <<>>
    /\ streamEnded = FALSE
    /\ endedStreams = {}
    /\ InitLegacy
    /\ InitCascade
    /\ InitAutoSave
    /\ InitDeploy
    /\ InitUsers /\ InitLater

\* The details view with its viewer: polling, server progress and stream events
\* while the route stays on one deployment.
NextStream ==
    \/ ServerAdvance(id)
    \/ \E r \in BagToSet(requests), st \in Statuses : ReceiveDeployment(r, st)
    \/ \E r \in BagToSet(requests), ok \in BOOLEAN, phase \in DetailsTaskPhases :
          ReceiveTask(r, ok, phase)
    \/ \E r \in BagToSet(requests) : ReceiveError(r)
    \/ TimerTick
    \/ UnmountDetails
    \/ \E data \in DetailsLogEvents : OnMessageLog(data) /\ UNCHANGED <<detailsVars, nonReactVars>>
    \/ \E type \in {"complete", "done"} : OnMessageComplete(type) /\ UNCHANGED <<detailsVars, nonReactVars>>
    \/ OnError /\ UNCHANGED <<detailsVars, nonReactVars>>

SpecStream == InitViewing /\ [][NextStream]_vars

\* The log viewer's own events, until the details view unmounts.
NextViewer ==
    \/ \E data \in LogEvents : OnMessageLog(data) /\ UNCHANGED <<detailsVars, nonReactVars>>
    \/ \E type \in {"complete", "done"} : OnMessageComplete(type) /\ UNCHANGED <<detailsVars, nonReactVars>>
    \/ OnError /\ UNCHANGED <<detailsVars, nonReactVars>>
    \/ \E lf \in Range(LOG_LEVELS) : SetLevelFilter(lf) /\ UNCHANGED <<detailsVars, nonReactVars>>
    \/ \E pf \in Range(LOG_PHASES) : SetPhaseFilter(pf) /\ UNCHANGED <<detailsVars, nonReactVars>>
    \/ \E sq \in SearchQueries : SetSearchQuery(sq) /\ UNCHANGED <<detailsVars, nonReactVars>>
    \/ UnmountDetails

\* The viewer's events do not read the details view's state: one deployment,
\* shown as running, stands for all of them.
InitOneViewer == InitViewing /\ id = "A" /\ deployment.status = "running"

SpecViewer == InitOneViewer /\ [][NextViewer]_vars


SpecLegacy == InitLegacyPage /\ [][NextLegacy]_vars

SpecCascade == InitLegacyPage /\ [][NextCascade]_vars

\* Submission from the legacy form: validation, the POST and its outcome.
NextSubmit ==
    \/ \E t \in Templates : SelectTemplate(t)
    \/ \E parameters \in FormInputs : DeployTemplate(parameters)
    \/ DeployFailed
    \/ \E d \in DeploymentIds \cup {"null"} : DeploySucceeded(d)

SpecSubmit == InitLegacyPage /\ [][NextSubmit]_vars

\* The Deploy page opened on the catalog or by a deep link, with the
\* credential settings the browser holds.
CredentialStates ==
    { [session |-> NoSettings, local |-> NoSettings],
      [session |-> NoSettings, local |-> Settings("custom", "sub-1", "custom", "proj-1")],
      [session |-> Settings("custom", "sub-1", "default", "proj-1"),
       local |-> Settings("default", "sub-1", "custom", "")],
      [session |-> Settings("default", "sub-1", "custom", ""),
       local |-> Settings("custom", "sub-1", "custom", "proj-1")],
      [session |-> [NoSettings EXCEPT !.stored = "invalid"],
       local |-> Settings("custom", "sub-1", "custom", "proj-1")],
      [session |-> Settings("custom", "", "custom", "proj-1"), local |-> NoSettings] }

InitDeployPage ==
    /\ InitNoView
    /\ InitLegacy
    /\ InitCascade
    /\ InitAutoSave
    /\ InitUsers /\ InitLater
    /\ pageTemplate \in {NoTemplate} \cup PageTemplates
    /\ deploying = FALSE
    /\ pageDeploymentId = "null"
    /\ pageError = ""
    /\ toasts = <<>>
    /\ deployCalls = <<>>
    /\ cloudCredentials \in CredentialStates
    /\ navTimers = {}
    /\ route = "deploy"

\* The forms the two submission paths are given.
PayloadInputs ==
    { p \in FormInputs : /\ p.subscription = <<"s","1">>
                         /\ p.resourceGroupName = <<"r","g","-","1">>
                         /\ p.location = <<"e","u">> }

CreatedAnswers ==
    { [success |-> TRUE, data |-> <<[deployment_id |-> "dep-1"]>>] }

\* Submissions: both pages' submit handlers up to their requests.
NextPayload ==
    \/ \E t \in PageTemplates : handleSelectTemplate(t)
    \/ handleBackToCatalog
    \/ \E formData \in PageForms : handleDeploy(formData)
    \/ \E call \in 1..Len(deployCalls), data \in CreatedAnswers : DeployAnswered(call, data)
    \/ SelectTemplate("webapp")
    \/ \E parameters \in PayloadInputs : DeployTemplate(parameters)
    \/ DeployFailed

SpecPayload == InitDeployPage /\ [][NextPayload]_vars

\* What the server can answer to POST /deploy with a 2xx status.
Answers ==
    CreatedAnswers \cup
    { [success |-> TRUE, data |-> <<[deployment_id |-> "dep-2"]>>],
      [success |-> TRUE, data |-> <<[deployment_id |-> "null"]>>],
      [success |-> TRUE, data |-> <<>>],
      [success |-> FALSE, data |-> <<>>] }

\* Ways the request can fail.
Rejections ==
    { Rejection(<<[NoResponse EXCEPT !.status = 422, !.detailKind = "array",
                     !.detailArray = <<[loc |-> <<"body", "location">>, msg |-> "field required"],
                                       [loc |-> <<>>, msg |-> "bad"]>>,
                     !.errorKind = "string", !.errorString = "invalid", !.message = "m1"]>>,
                "Request failed with status code 422"),
      Rejection(<<[NoResponse EXCEPT !.status = 422, !.detailKind = "array"]>>,
                "Request failed with status code 422"),
      Rejection(<<[NoResponse EXCEPT !.status = 422, !.detailKind = "string",
                     !.detailString = "unprocessable", !.message = "m2"]>>,
                "Request failed with status code 422"),
      Rejection(<<[NoResponse EXCEPT !.status = 400, !.detailKind = "array",
                     !.detailArray = <<[loc |-> <<"body">>, msg |-> "bad"]>>]>>,
                "Request failed with status code 400"),
      Rejection(<<[NoResponse EXCEPT !.status = 500, !.errorKind = "object",
                     !.errorObject = [message |-> "", details |-> "quota exceeded", code |-> "E1"],
                     !.message = "m3"]>>,
                "Request failed with status code 500"),
      Rejection(<<[NoResponse EXCEPT !.status = 500, !.errorKind = "object",
                     !.errorObject = [message |-> "", details |-> "", code |-> "E2"]]>>,
                "Request failed with status code 500"),
      Rejection(<<[NoResponse EXCEPT !.status = 500, !.errorKind = "string",
                     !.errorString = "boom", !.message = "m4", !.detailKind = "string",
                     !.detailString = "d4"]>>,
                "Request failed with status code 500"),
      Rejection(<<[NoResponse EXCEPT !.status = 404, !.detailKind = "string",
                     !.detailString = "Not found"]>>,
                "Request failed with status code 404"),
      Rejection(<<[NoResponse EXCEPT !.status = 502]>>, "Request failed with status code 502"),
      Rejection(<<>>, "Network Error"),
      Rejection(<<>>, "") }

SubmittedForm == CHOOSE f \in PageForms : DOMAIN f = {"vm_size"}
VmTemplate == [name |-> "vm", cloud_provider |-> azure]

\* What the relay can report to onComplete.
RelayResults ==
    { [status |-> "completed", error |-> ""],
      [status |-> "failed", error |-> "terraform apply failed"],
      [status |-> "failed", error |-> ""] }

\* The Deploy page: a submission, its answer, the relay's report, navigation.
NextDeploy ==
    \/ handleSelectTemplate(VmTemplate)
    \/ handleBackToCatalog
    \/ handleDeploy(SubmittedForm)
    \/ \E call \in 1..Len(deployCalls), data \in Answers : DeployAnswered(call, data)
    \/ \E call \in 1..Len(deployCalls), err \in Rejections : DeployRejected(call, err)
    \/ \E result \in RelayResults : RelayReports(result)
    \/ NavTick
    \/ \E t \in navTimers : NavigateFires(t)

SpecDeploy == InitLegacyPage /\ [][NextDeploy]_vars

\* The user management page: the list is fetched and rendered.
NextUsers ==
    \/ fetchUsers
    \/ \E list \in ListsUpTo(Roles, MaxUsers) : UsersAnswered(list)
    \/ UsersFailed

SpecUsers == InitLegacyPage /\ [][NextUsers]_vars

\* The details view of one running deployment whose task reports any phase.
NextProgress ==
    \/ ServerAdvance(id)
    \/ \E r \in BagToSet(requests), st \in Statuses : ReceiveDeployment(r, st)
    \/ \E r \in BagToSet(requests), ok \in BOOLEAN, phase \in TaskPhases :
          ReceiveTask(r, ok, phase)
    \/ \E r \in BagToSet(requests) : ReceiveError(r)
    \/ TimerTick

SpecProgress == InitOneViewer /\ [][NextProgress]_vars

\* The accounts of the server, the roles it can hold for them and the
\* permissions it reports for a role.
Accounts == {"ann", "bob"}
ServerRoles == {"admin", "viewer"}
ServerPermissions(role) ==
    CASE role = "admin" -> {"read", "write", "delete", "manage_users"}
      [] role = "user" -> {"read", "write"}
      [] role = "viewer" -> {"read"}

\* The user objects the server can send for an account, with and without
\* their permissions inside.
ServerUsers ==
    { UserObject(a, r, embed, ServerPermissions(r)) :
        a \in Accounts, r \in ServerRoles, embed \in BOOLEAN }

\* What localStorage holds when the application starts.
InitAuthPage ==
    /\ InitNoView /\ InitLegacy /\ InitCascade /\ InitAutoSave /\ InitDeploy /\ InitUsers
    /\ InitParams /\ InitCatalog /\ InitDialog
    /\ authUser = NoUser
    /\ authToken = "null"
    /\ authLoading = TRUE
    /\ isAuthenticated = FALSE
    /\ authCalls = <<>>
    /\ authSettled = NoCall
    /\ authStorage \in
          { EmptyStorage,
            [auth_token |-> "ann", auth_user |-> <<NotJson>>],
            [auth_token |-> "ann",
             auth_user |-> <<stringifyUser(UserObject("ann", "admin", TRUE,
                                                       ServerPermissions("admin")))>>] }

NextAuth ==
    \/ AuthMount
    \/ \E kind \in {"login", "updateUser", "getCurrentUser"}, a \in Accounts : AuthCall(kind, a)
    \/ Logout
    \/ \E i \in 1..Len(authCalls), u \in ServerUsers :
          \E perms \in {<<>>, <<ServerPermissions(u.role)>>} : AuthAnswered(i, u, perms)
    \/ \E i \in 1..Len(authCalls), status \in {0, 200, 401, 500} : AuthFailed(i, status)

SpecAuth == InitAuthPage /\ [][NextAuth]_vars

\* Autosave: edits of the storage cascade's selects, template selection, time.
NextAutoSave ==
    \/ \E t \in Templates : SelectTemplate(t)
    \/ \E v \in Range(TopOptions("storage")) : ChangeTop("storage", v)
    \/ \E v \in Range(form[Last("storage")].options) : PickLast("storage", v)
    \/ PassTime
    \/ AutoSaveFires

SpecAutoSave == InitLegacyPage /\ [][NextAutoSave]_vars

(***************************************************************************)
(* Properties of the details view                                          *)
(***************************************************************************)

\* C1: while the view shows one deployment, its displayed status only moves
\* forward along pending -> running -> {completed, failed}, and once it is
\* completed or failed no response changes the displayed record.
C1_StatusOnlyMovesForward ==
    [][ (ddMounted /\ ddMounted' /\ deployment # NullDeployment
            /\ deployment'.deployment_id = deployment.deployment_id)
        => /\ Follows(deployment.status, deployment'.status)
           /\ (deployment.status \in Terminal => deployment' = deployment) ]_vars

\* A detail request sent by the interval's callback in this step.
TimerIssued ==
    \E r \in BagToSet(requests') :
        /\ r.by = "timer"
        /\ r.stage = "detail"
        /\ CopiesIn(r, requests') > CopiesIn(r, requests)

\* C2: the 3-second timer sends a detail request only while the view is
\* mounted and its displayed status is pending or running.
C2_TimerOnlyWhileNonTerminal ==
    [][ TimerIssued => (ddMounted /\ deployment.status \in NonTerminal) ]_vars

\* The timer polled, then the displayed status became terminal and the
\* interval was cleared while one of its requests was still in flight.
C2_Witness ==
    /\ ddMounted
    /\ deployment.status \in Terminal
    /\ interval = "none"
    /\ \E r \in BagToSet(requests) : r.by = "timer" /\ r.stage = "detail"

\* C3: a response that changes the displayed deployment is a response for the
\* deployment id the view is currently on.
C3_OnlyCurrentIdApplied ==
    [][ (ddMounted /\ ddMounted' /\ deployment' # deployment)
        => deployment'.deployment_id = id' ]_vars

\* C6: when the deployment whose logs are shown reaches failed, polling stops
\* and the entries received so far stay in the log list and on screen.
C6_LogsSurviveFailure ==
    [][ (ddMounted' /\ viewerMounted /\ logs # <<>>
            /\ deployment.deployment_id = id /\ deployment'.deployment_id = id /\ id' = id
            /\ deployment.status # "failed" /\ deployment'.status = "failed")
        => (interval' = "none" /\ viewerMounted' /\ logs' = logs
                /\ filteredLogs' = filteredLogs) ]_vars

(***************************************************************************)
(* Properties of the log viewer                                            *)
(***************************************************************************)

\* C7: while a viewer is mounted its log list changes only by one entry
\* appended per received 'log' event, in arrival order; filter changes leave
\* the list as it is.
C7_LogsAppendOnly ==
    [][ (viewerMounted /\ viewerMounted')
        => /\ logs' = [i \in 1..Len(received') |-> LogEntry(received'[i])]
           /\ \/ logs' = logs /\ received' = received
              \/ \E data \in LogEvents :
                    /\ received' = Append(received, data)
                    /\ logs' = Append(logs, LogEntry(data))
           /\ (<<levelFilter, phaseFilter, searchQuery>>' #
                 <<levelFilter, phaseFilter, searchQuery>> => logs' = logs) ]_vars

\* Two events arrived, the second behind the first, and a filter is set.
C7_Witness ==
    /\ viewerMounted
    /\ Len(logs) = 2
    /\ logs[1] # logs[2]
    /\ logs[2] = LogEntry(QuotaEvent)
    /\ levelFilter # ALL

\* C8: once the stream delivered 'complete' or 'done' or raised an error, the
\* channel is closed and, for as long as that viewer stays mounted on that
\* deployment id, stays closed (no new stream) and the log list gets no
\* further entry.
C8_NoReconnect ==
    [][ /\ (viewerMounted' /\ streamEnded') => esState' = "closed"
        /\ (viewerMounted /\ streamEnded /\ viewerMounted' /\ deploymentId' = deploymentId)
              => (streamEnded' /\ esState' = "closed" /\ logs' = logs) ]_vars

\* C8 as stated: once a stream for a deployment id delivered 'complete' or
\* 'done' or raised an error, no step that leaves the route where it is opens
\* a new stream for that id.
C8_NoNewStreamForId ==
    [][ \A d \in endedStreams :
           ~ /\ id' = id
             /\ esState' = "open"
             /\ deploymentId' = d
             /\ (esState # "open" \/ deploymentId # d) ]_vars

\* The stream ended after delivering an entry.
C8_Witness ==
    /\ viewerMounted
    /\ streamEnded
    /\ esState = "closed"
    /\ logs # <<>>

\* The three filter conditions of the claim, for one entry.
PassesAllFilters(log) ==
    /\ levelFilter = ALL \/ log.level = levelFilter
    /\ phaseFilter = ALL \/ toUpperCase(log.phase) = phaseFilter
    /\ \/ searchQuery = <<>>
       \/ \E field \in {log.message, log.level, log.phase} :
             includes(toLowerCase(field), toLowerCase(searchQuery))

\* C9: the filtered view is the order-preserving sublist of the entries that
\* pass all three filters; any order of the three passes gives it, filtering
\* it again changes nothing, and an ERROR entry is kept under level ALL or
\* ERROR and dropped under level WARNING.
C9_FilterIsProjection ==
    viewerMounted =>
        /\ filteredLogs = SelectSeq(logs, PassesAllFilters)
        /\ \A order \in {<<1, 2, 3>>, <<1, 3, 2>>, <<2, 1, 3>>, <<2, 3, 1>>, <<3, 1, 2>>, <<3, 2, 1>>} :
              LET pass(n, ls) == CASE n = 1 -> filterLevel(ls, levelFilter)
                                   [] n = 2 -> filterPhase(ls, phaseFilter)
                                   [] n = 3 -> filterSearch(ls, searchQuery)
              IN  pass(order[3], pass(order[2], pass(order[1], logs))) = filteredLogs
        /\ ApplyFilters(filteredLogs, levelFilter, phaseFilter, searchQuery) = filteredLogs
        /\ (levelFilter = WARNING => \A i \in 1..Len(filteredLogs) : filteredLogs[i].level # ERROR)
        /\ (levelFilter \in {ALL, ERROR} /\ phaseFilter = ALL /\ searchQuery = <<>>
                => \A i \in 1..Len(logs) :
                      logs[i].level = ERROR => logs[i] \in Range(filteredLogs))

\* All three filters are set and keep one of two entries; the dropped one is
\* the ERROR entry of the example.
C9_Witness ==
    /\ viewerMounted
    /\ LogEntry(QuotaEvent) \in Range(logs)
    /\ levelFilter = WARNING
    /\ phaseFilter # ALL
    /\ searchQuery # <<>>
    /\ Len(filteredLogs) = 1
    /\ Len(logs) = 2


(***************************************************************************)
(* Properties of the legacy deployment monitor                             *)
(***************************************************************************)

\* C4: monitorDeployment sends at most 20 status requests for one deployment,
\* and after its terminal notification (success, failure or the timeout
\* warning) it sends no further status request for that deployment.
C4_AtMostTwentyStatusRequests ==
    [][ \A d \in DeploymentIds :
           /\ monitors'[d].requests <= maxAttempts
           /\ (monitors[d].notifications > 0 => monitors'[d].requests = monitors[d].requests) ]_vars

\* C5: once the submitted deployment reached a terminal state (its monitor
\* notified success, failure or timeout), the 30-second history refresh
\* requests the history no more.
C5_HistoryPollingStops ==
    [][ (\E d \in DeploymentIds : monitors[d].notifications > 0)
        => historyRequests' = historyRequests ]_vars

(***************************************************************************)
(* Properties of the cascading dropdowns                                   *)
(***************************************************************************)

\* C10: after a cascade's change handler has run, the value of each child
\* field is a member of that child's recomputed option list, whatever value
\* the parent has.
C10_ChildValueIsAllowed ==
    \A c \in handled :
        /\ form[Mid(c)].value \in Range(form[Mid(c)].options)
        /\ form[Last(c)].value \in Range(form[Last(c)].options)

\* The option table of a cascade and the names of its three columns.
Table(c) ==
    CASE c = "plan" -> APP_SERVICE_PLANS [] c = "sql" -> SQL_EDITIONS [] c = "storage" -> STORAGE_ACCOUNTS
TopKey(c) == CASE c = "plan" -> "os" [] c = "sql" -> "edition" [] c = "storage" -> "kind"
MidKey(c) == CASE c = "plan" -> "tier" [] c = "sql" -> "compute" [] c = "storage" -> "replication"
LastKey(c) == CASE c = "plan" -> "sku" [] c = "sql" -> "version" [] c = "storage" -> "performance"

\* The distinct elements of a list, in the order of their first occurrence.
RECURSIVE Distinct(_)
Distinct(s) ==
    IF s = <<>> THEN <<>>
    ELSE <<Head(s)>> \o Distinct(SelectSeq(Tail(s), LAMBDA x : x # Head(s)))

\* Middle values the table lists for top value t; last values it lists for (t, m).
ListedMid(c, t) ==
    LET rows == SelectSeq(Table(c), LAMBDA x : x[TopKey(c)] = t)
    IN  Distinct([i \in 1..Len(rows) |-> rows[i][MidKey(c)]])
ListedLast(c, t, m) ==
    LET rows == SelectSeq(Table(c), LAMBDA x : x[TopKey(c)] = t /\ x[MidKey(c)] = m)
    IN  Distinct([i \in 1..Len(rows) |-> rows[i][LastKey(c)]])

\* C11: when a cascade's top field changes to a value the table has rows for,
\* the middle field's options become the distinct middle values listed for it
\* and its selection the first of them, the last field's selection becomes
\* the first value listed for that (top, middle) pair, and the fields of the
\* other two cascades stay as they are.
C11_TopChangeResetsChildren ==
    [][ \A c \in Cascades :
           LET t == form'[Top(c)].value
           IN  (form[Top(c)].value # t /\ ListedMid(c, t) # <<>>)
               => /\ form'[Mid(c)].options = ListedMid(c, t)
                  /\ form'[Mid(c)].value = ListedMid(c, t)[1]
                  /\ form'[Last(c)].value = ListedLast(c, t, form'[Mid(c)].value)[1]
                  /\ \A e \in FieldIds \ {Top(c), Mid(c), Last(c)} : form'[e] = form[e] ]_vars

\* The OS was changed from Windows to Linux and the handler has run.
C11_Witness ==
    /\ form["param_os"].value = "Linux"
    /\ form["param_tier"].options = <<"Basic", "Standard", "PremiumV3">>
    /\ form["param_sku"].value = "B1"
    /\ "plan" \in handled

(***************************************************************************)
(* Properties of the autosave                                              *)
(***************************************************************************)

\* C12: at most one autosave timer is pending; local storage is written only
\* when at least AUTOSAVE_DELAY has passed since the most recent edit, only
\* under the key of the template selected at that moment, and a timer that
\* fires while no template is selected writes nothing.
C12_AutoSaveDebounced ==
    [][ /\ Cardinality(timers') <= 1
        /\ localStorage' # localStorage
              => /\ sinceEdit >= AUTOSAVE_DELAY
                 /\ selectedTemplate \in Templates
                 /\ \A k \in Templates :
                       localStorage'[k] # localStorage[k]
                          => k = selectedTemplate /\ localStorage'[k][1].template = k
        /\ selectedTemplate = "null" => localStorage' = localStorage ]_vars

\* Both templates have an autosaved item and another edit is waiting for its timer.
C12_Witness ==
    /\ \A k \in Templates : localStorage[k] # <<>>
    /\ timers = {TimeStep}
    /\ sinceEdit = TimeStep

(***************************************************************************)
(* Properties of the legacy submission                                     *)
(***************************************************************************)

\* The monitoring of a deployment or the history polling starts in this step.
MonitoringStarts ==
    \/ \E d \in DeploymentIds : monitors[d] = NoMonitor /\ monitors'[d] # NoMonitor
    \/ ~deploymentPollingInterval /\ deploymentPollingInterval'

\* C13 as stated: a submission with empty resource group and empty location
\* lists exactly two validation errors.
C13_EmptyFieldsTwoErrors ==
    [][ \A p \in FormInputs :
           (/\ p.resourceGroupName = <<>>
            /\ p.location = <<>>
            /\ validationErrors' # validationErrors
            /\ validationErrors' = validateDeploymentParameters(p))
           => Len(validationErrors') = 2 ]_vars

\* C13: with a template selected, a submission with empty resource group and
\* empty location lists exactly two validation errors; parameters with at
\* least one validation error are never posted, and monitoring and history
\* polling start only on the answer to a posted request.
C13_InvalidNeverSubmitted ==
    [][ /\ \A p \in FormInputs :
              /\ (/\ selectedTemplate # "null"
                  /\ p.resourceGroupName = <<>>
                  /\ p.location = <<>>
                  /\ validationErrors' # validationErrors
                  /\ validationErrors' = validateDeploymentParameters(p))
                 => Len(validationErrors') = 2
              /\ (Len(validateDeploymentParameters(p)) > 0 /\ deployRequest = NoRequest)
                 => deployRequest' # deploymentData(p)
        /\ Len(validationErrors') > 0 /\ validationErrors' # validationErrors
              => UNCHANGED <<deployRequest, monitors, deploymentPollingInterval, historyRequests>>
        /\ MonitoringStarts => (deployRequest # NoRequest /\ deployRequest' = NoRequest) ]_vars

\* A template is selected, the submission with both fields empty was refused
\* with two errors, and nothing was sent or started.
C13_Witness ==
    /\ selectedTemplate \in Templates
    /\ validationErrors = <<"Resource Group Name is required", "Location is required">>
    /\ deployRequest = NoRequest
    /\ \A d \in DeploymentIds : monitors[d] = NoMonitor
    /\ ~deploymentPollingInterval

\* A name of 1 to 90 characters, each a letter, a digit, '.', '_' or '-'.
AcceptedName(name) ==
    /\ Len(name) \in 1..maxNameLength
    /\ \A i \in 1..Len(name) : name[i] \in NameChars

\* C14: the resource group name of a posted request passed the name check:
\* it has 1 to 90 characters, all of them letters, digits, periods,
\* underscores or hyphens, with no whitespace around it.
C14_SentNameIsAccepted ==
    deployRequest # NoRequest => AcceptedName(deployRequest.resource_group)

\* The settings entry a template's provider has: "azure", "gcp" or "none".
ProviderOf(template) ==
    IF template.cloud_provider = azure THEN "azure"
    ELSE IF template.cloud_provider = gcp THEN "gcp"
    ELSE "none"

\* The stored id of the template's provider when the settings parse and the
\* provider is in custom mode, "" otherwise.
CustomIdFor(template, settings) ==
    IF settings.stored # "json" THEN ""
    ELSE IF ProviderOf(template) = "azure" /\ settings.azure.mode = "custom"
    THEN settings.azure.subscriptionId
    ELSE IF ProviderOf(template) = "gcp" /\ settings.gcp.mode = "custom"
    THEN settings.gcp.projectId
    ELSE ""

\* C15: a submitted payload has the field subscription_id exactly when the
\* stored settings parse, the template's provider is in custom mode and that
\* provider's stored id is not empty; the field then holds that provider's
\* id.  The form's own subscription_id and project_id never reach it.
C15_CredentialField ==
    \A i \in 1..Len(deployCalls) :
        LET call == deployCalls[i] IN
        LET expected == CustomIdFor(call.template, savedSettingsOf(cloudCredentials))
        IN  /\ ("subscription_id" \in DOMAIN call.payload) <=> (expected # "")
            /\ "subscription_id" \in DOMAIN call.payload
                  => call.payload.subscription_id = expected
            /\ "project_id" \notin DOMAIN call.payload

\* A GCP template is submitted while both providers are in custom mode with
\* an id each: the payload holds the project id.
C15_Witness ==
    \E i \in 1..Len(deployCalls) :
        LET call == deployCalls[i] IN
        /\ ProviderOf(call.template) = "gcp"
        /\ savedSettingsOf(cloudCredentials) = Settings("custom", "sub-1", "custom", "proj-1")
        /\ "subscription_id" \in DOMAIN call.payload
        /\ call.payload.subscription_id = "proj-1"

TopLevelFields ==
    {"subscription_id", "project_id", "resource_group", "resource_group_name",
     "location", "region", "zone"}
LegacyTopLevelFields == {"subscription", "resourceGroupName", "location"}

\* m is the map f without the fields named in top, values unchanged.
IsRestOf(m, f, top) ==
    /\ DOMAIN m = (DOMAIN f) \ top
    /\ \A k \in DOMAIN m : m[k] = f[k]

RECURSIVE FirstNonEmpty(_)
FirstNonEmpty(candidates) ==
    IF candidates = <<>> THEN ""
    ELSE IF candidates[1] # "" THEN candidates[1]
    ELSE FirstNonEmpty(Tail(candidates))

\* The display string of a failed submission, by precedence.
Display(err) ==
    LET r == IF err.response = <<>> THEN NoResponse ELSE err.response[1]
    IN  FirstNonEmpty(
          << IF r.status = 422 /\ r.detailKind = "array"
             THEN "Validation Error: " \o join(mapFieldMsg(r.detailArray), ", ") ELSE "",
             IF r.errorKind = "string" THEN r.errorString
             ELSE IF r.errorKind = "object"
             THEN FirstNonEmpty(<<r.errorObject.message, r.errorObject.details,
                                  stringify(r.errorObject)>>)
             ELSE "",
             r.message,
             IF r.detailKind = "string" THEN r.detailString ELSE "",
             err.message,
             "Failed to create deployment" >>)

\* C17: a failed submission stores one non-empty display string, chosen by
\* the precedence 422 detail array, response error, response message, string
\* detail, exception message, generic text, as the page error; it shows that
\* string in one error toast, sets deploying to false and leaves the
\* deployment id alone.
C17_FailureDisplaysOneString ==
    [][ \A call \in 1..Len(deployCalls), err \in Rejections :
            DeployRejected(call, err)
               => /\ pageError' = Display(err)
                  /\ pageError' # ""
                  /\ toasts' = Append(toasts, Toast(Display(err), "error"))
                  /\ ~deploying'
                  /\ pageDeploymentId' = pageDeploymentId ]_vars

\* A 422 answer with a detail array, an error and a message has been
\* displayed as the joined list.
C17_Witness ==
    /\ pageError = "Validation Error: body.location: field required, unknown: bad"
    /\ ~deploying
    /\ pageDeploymentId = "null"
    /\ toasts # <<>>
    /\ toasts[Len(toasts)] = Toast(pageError, "error")

\* C18: once every submission has been answered, the page is not left in the
\* 'Creating Deployment...' state (deploying, no deployment id) without an
\* error.
C18_NeverStuckCreating ==
    (deploying /\ pageDeploymentId = "null" /\ pageError = "") => deployCalls # <<>>

\* C19: when the relay reports completed, a navigation to the details view
\* of the deployment it was given is scheduled 2 seconds ahead, and the page
\* only ever navigates by such a timeout after its delay; when the relay
\* reports failed, the error is displayed, deploying becomes false and no
\* navigation happens or is scheduled.
C19_TerminalReports ==
    [][ /\ \A result \in RelayResults :
              RelayReports(result)
                 => /\ result.status = "completed"
                          => /\ navTimers' = navTimers \cup
                                   {[to |-> pageDeploymentId, remaining |-> 2000]}
                             /\ route' = route
                    /\ result.status = "failed"
                          => /\ pageError' # ""
                             /\ pageError' \in {result.error, "Deployment failed"}
                             /\ ~deploying'
                             /\ navTimers' = navTimers
                             /\ route' = route
        /\ route' # route
              => \E t \in navTimers : t.remaining = 0 /\ route' = t.to
        /\ \A t \in navTimers' \ navTimers :
              \/ t.remaining = 2000 /\ t.to = pageDeploymentId /\ deploying
              \/ \E u \in navTimers : u.to = t.to /\ u.remaining > t.remaining ]_vars

\* The page has navigated to the details view of the deployment the server
\* created.
C19_Witness ==
    /\ route = "dep-1"
    /\ pageDeploymentId = "dep-1"
    /\ \E i \in 1..Len(toasts) : toasts[i].message = "Deployment completed successfully!"

\* The permission list the table states for a role.
RolePermissions(role) ==
    IF role = "admin" THEN <<"read", "write", "delete", "manage_users">>
    ELSE IF role = "user" THEN <<"read", "write">>
    ELSE IF role = "viewer" THEN <<"read">>
    ELSE <<>>

\* C20: the permissions shown for a user depend on the role alone: the
\* listed ones for admin, user and viewer, none for any other role; admin's
\* contain user's, which contain viewer's.
C20_PermissionsByRole ==
    /\ \A i \in 1..Len(users) : PermissionCells[i] = Arr(RolePermissions(users[i]))
    /\ Range(RolePermissions("viewer")) \subseteq Range(RolePermissions("user"))
    /\ Range(RolePermissions("user")) \subseteq Range(RolePermissions("admin"))

\* C25: when the user picks a value in a cascade's middle field, the field
\* holds the picked value after the change handler has run, and the last
\* field holds the first value listed for the top value and the picked one.
C25_MidPickIsKept ==
    [][ \A c \in Cascades : \A v \in Range(form[Mid(c)].options) :
            ChangeMid(c, v)
               => /\ form'[Mid(c)].value = v
                  /\ form'[Last(c)].value = ListedLast(c, form[Top(c)].value, v)[1] ]_vars

\* The Deploy page renders the log relay.
RelayShown == route = "deploy" /\ deploying /\ pageDeploymentId # "null"

\* C27: the relay is only shown for the id returned for the most recent
\* submission; so right after a submission, whose answer is still awaited,
\* the relay is not shown with the id of an earlier one.
C27_NoRelayForEarlierSubmission ==
    [][ Len(deployCalls') > Len(deployCalls) => ~RelayShown' ]_vars

\* C29: a monitored deployment gets one terminal notification (success,
\* failure or timeout warning) and not a second one, and no status request is
\* sent for it afterwards, also when status checks overlap.
C29_OneTerminalNotification ==
    [][ \A d \in DeploymentIds :
           /\ monitors'[d].notifications <= 1
           /\ monitors[d].notifications = 1
                 => monitors'[d].requests = monitors[d].requests ]_vars

\* The place of a phase in the order initializing, validating, planning,
\* applying, finalizing, completed.
PhaseOrder == <<"initializing", "validating", "planning", "applying", "finalizing", "completed">>
Place(phase) == CHOOSE i \in 1..Len(PhaseOrder) : PhaseOrder[i] = phase

\* C30: for every reported task phase, the steps before it are marked
\* completed, the steps at or after it are not, the step equal to it is
\* marked active, and no step is both active and completed.
C30_StepsFollowPhase ==
    taskInfo \in TaskPhases
       => \A i \in 1..Len(PhaseSteps) :
             LET name == PhaseSteps[i]
             IN  /\ Place(name) < Place(taskInfo) => isCompleted(taskInfo, name)
                 /\ Place(name) >= Place(taskInfo) => ~isCompleted(taskInfo, name)
                 /\ name = taskInfo => isActive(taskInfo, name)
                 /\ ~(isActive(taskInfo, name) /\ isCompleted(taskInfo, name))

\* The fixed permission set of a role.
PermissionsOf(role) ==
    IF role = "admin" THEN {"read", "write", "delete", "manage_users"}
    ELSE IF role = "user" THEN {"read", "write"}
    ELSE IF role = "viewer" THEN {"read"}
    ELSE {}

AllPermissions == {"read", "write", "delete", "manage_users"}

\* C21: for an authenticated user with role r, hasPermission(p) is true
\* exactly when p is in the permission set of r, and a permission-guarded
\* route renders its page exactly when r implies the route's permission.
C21_PermissionFollowsRole ==
    (~authLoading /\ isAuthenticated /\ authUser # NoUser)
       => /\ \A p \in AllPermissions :
                hasPermission(p) <=> (p \in PermissionsOf(authUser.role))
          /\ \A path \in DOMAIN GuardedRoutes :
                (ProtectedRoute(TRUE, GuardedRoutes[path]) = "children")
                   <=> (GuardedRoutes[path] \in PermissionsOf(authUser.role))

\* The three values in memory and the two items in browser storage.
Session == <<authToken, authUser, isAuthenticated, authStorage>>

\* C22: a 401 answer to getCurrentUser logs the session out: token and user
\* are removed from memory and from browser storage, isAuthenticated becomes
\* false; any other failure of the call changes none of them.
C22_OnlyUnauthorizedLogsOut ==
    [][ \A i \in 1..Len(authCalls), status \in {0, 200, 401, 500} :
            (authCalls[i].kind = "getCurrentUser" /\ AuthFailed(i, status))
               => IF status = 401
                  THEN /\ authToken' = "null"
                       /\ authUser' = NoUser
                       /\ ~isAuthenticated'
                       /\ authStorage' = [auth_token |-> "null", auth_user |-> <<>>]
                  ELSE Session' = Session ]_vars

\* A 401 answer to getCurrentUser has ended a session while another call
\* was pending: nothing is left in memory or in storage.
C22_Witness ==
    /\ authSettled = [kind |-> "getCurrentUser", status |-> 401]
    /\ authStorage = [auth_token |-> "null", auth_user |-> <<>>]
    /\ authCalls # <<>>
    /\ authToken = "null"
    /\ authUser = NoUser
    /\ ~isAuthenticated

\* C26: isAuthenticated is true exactly when token and user are both set,
\* and browser storage holds auth_user only together with auth_token.
C26_SessionIsConsistent ==
    /\ isAuthenticated <=> (authToken # "null" /\ authUser # NoUser)
    /\ authStorage.auth_user # <<>> => authStorage.auth_token # "null"

(***************************************************************************)
(* Parameters form: schemas, editor texts                                  *)
(***************************************************************************)
ParamSchemas ==
    { [n \in ParamNames |->
          CASE n = "tags" -> Param("object", <<>>, <<>>)
            [] n = "subnets" -> Param("array", <<[kind |-> "array", items |-> <<"s", "k">>]>>, <<>>)
            [] OTHER -> NoParam],
      [n \in ParamNames |->
          CASE n = "settings" ->
                   Param("object", <<[kind |-> "object", members |-> << <<"k", "1">> >>]>>, <<>>)
            [] n = "subnets" -> Param("array", <<>>, <<>>)
            [] OTHER -> NoParam],
      [n \in ParamNames |->
          CASE n = "tags" -> Param("string", <<>>, <<>>)
            [] n = "sku" -> Param("string", <<[kind |-> "string", text |-> <<"B", "1">>]>>,
                                  << <<"F", "1">>, <<"B", "1">> >>)
            [] OTHER -> NoParam],
      [n \in ParamNames |->
          CASE n = "settings" -> Param("bool", <<>>, <<>>)
            [] n = "sku" -> Param("string", <<[kind |-> "string", text |-> <<"x">>]>>, <<>>)
            [] OTHER -> NoParam] }

EditorTexts ==
    { <<>>, <<"[", "]">>, <<"[", "1", ",", " ", "2", "]">>, <<"[", "1", ",", "]">>,
      <<" ", "{", "s", ":", "1", "}", " ">>, <<"{", "x", "}">>, <<"x">>,
      <<"F", "1">> }

NextParams ==
    \/ \E schema \in ParamSchemas : ShowTemplateParameters(schema)
    \/ \E n \in ParamNames, text \in EditorTexts : EditParameter(n, text)
    \/ CollectParameters

SpecParams == InitLegacyPage /\ [][NextParams]_vars

\* The parameters whose control is the multi-line JSON editor of an array or object type
JsonEdited ==
    { n \in ParamNames :
         /\ paramInputs[n] # <<>>
         /\ paramSchema[n].type \in {"array", "object"}
         /\ controlFor(n, paramSchema[n]).control = "textarea" }

EmptyOf(type) == IF type = "array" THEN EmptyArray ELSE EmptyObject

\* C23: what collectParameters returns for a parameter of array or object type is the
\* parsed value of its editor's text when the text is valid JSON, and the empty array or
\* the empty object when it is not; it is never the raw text.
C23_UnparsableFallsBack ==
    [][ CollectParameters =>
          \A n \in JsonEdited :
             LET text == paramInputs[n][1]
                 value == collected'[1][n]
             IN  /\ value.kind # "string"
                 /\ JSONparse(text) = SyntaxError => value = EmptyOf(paramSchema[n].type)
                 /\ JSONparse(text) # SyntaxError
                       => value \in {JSONparse(text), EmptyOf(paramSchema[n].type)} ]_vars

(***************************************************************************)
(* Service catalog: the server's template lists                            *)
(***************************************************************************)
\* The templates the server lists for a provider.
ServerTemplates(p) == IF p = "azure" THEN <<"vm", "storage">> ELSE <<"bucket">>

NextCatalog ==
    \/ CatalogMount
    \/ \E p \in Providers : SetProvider(p)
    \/ \E i \in 1..Len(catalogCalls), outcome \in {"success", "unsuccessful", "error"} :
          TemplatesAnswered(i, outcome, ServerTemplates(catalogCalls[i].provider))
    \/ \E rejected \in BOOLEAN :
          CountsAnswered(rejected, ServerTemplates("azure"), ServerTemplates("gcp"))

SpecCatalog == InitLegacyPage /\ [][NextCatalog]_vars

\* C28: when the catalog is not loading, no template request is in flight and no request
\* failed since the provider was selected, the listed templates are those of the selected
\* provider; and loading is true while a request for the selected provider is in flight.
C28_ListFollowsProvider ==
    /\ ( /\ catalogMounted /\ ~catalogLoading /\ ~catalogFailed
         /\ catalogCalls = <<>> /\ countsCall # "pending" )
          => catalogTemplates = ServerTemplates(catalogProvider)
    /\ (\E i \in 1..Len(catalogCalls) : catalogCalls[i].provider = catalogProvider)
          => catalogLoading

(***************************************************************************)
(* Resource group list: groups, subscriptions                              *)
(***************************************************************************)
ResourceGroups == {"rg1", "rg2"}
Subscriptions == {"", "sub1"}

NextDialog ==
    \/ \E s \in Subscriptions : SelectSubscription(s)
    \/ \E g \in ResourceGroups : ClickDelete(g)
    \/ PressConfirm
    \/ Dismiss
    \/ Hidden
    \/ \E i \in 1..Len(deleteRequests), ok \in BOOLEAN : DeleteAnswered(i, ok)

SpecDialog == InitLegacyPage /\ [][NextDialog]_vars

\* The Delete click handlers whose dialog has left the document
Closed ==
    { i \in 1..Len(deleteHandlers) : confirmModal = NoModal \/ confirmModal.handler # i }

\* C24: a DELETE request is sent only by a press of the confirm button of the open dialog,
\* for the group that dialog was opened for and with the selected, non-empty subscription;
\* dismissing and closing the dialog send nothing; the click handler receives the dialog's
\* result at most once, and exactly once when the dialog has closed; a handler sends at
\* most one request.
C24_DeleteOnlyAfterConfirm ==
    /\ [][ /\ Len(deleteRequests') > Len(deleteRequests)
              => /\ PressConfirm
                 /\ Len(deleteRequests') = Len(deleteRequests) + 1
                 /\ deleteRequests'[Len(deleteRequests')].rg = confirmModal.rg
                 /\ deleteRequests'[Len(deleteRequests')].subscription_id = rgSubscription
                 /\ rgSubscription # ""
           /\ Len(deleteRequests') >= Len(deleteRequests)
           /\ (Dismiss \/ Hidden) => deleteRequests' = deleteRequests ]_vars
    /\ [](/\ \A i \in 1..Len(deleteHandlers) :
                /\ deleteHandlers[i].delivered <= 1
                /\ i \in Closed => deleteHandlers[i].delivered = 1
          /\ \A i, j \in 1..Len(deleteRequests) :
                deleteRequests[i].handler = deleteRequests[j].handler => i = j
          /\ \A i \in 1..Len(deleteRequests) :
                /\ deleteHandlers[deleteRequests[i].handler].result = "true"
                /\ deleteHandlers[deleteRequests[i].handler].rg = deleteRequests[i].rg)

\* One dialog was dismissed and sent nothing, another was confirmed and sent its request,
\* and both have closed.
C24_Witness ==
    /\ confirmModal = NoModal
    /\ Len(deleteHandlers) = 2
    /\ deleteHandlers[1].result = "false" /\ deleteHandlers[1].delivered = 1
    /\ deleteHandlers[2].result = "true" /\ deleteHandlers[2].delivered = 1
    /\ Len(deleteRequests) = 1
    /\ deleteRequests[1].rg = deleteHandlers[2].rg
    /\ deleteRequests[1].handler = 2

====
